---- MODULE Spec2Model ----
(***************************************************************************)
(* The OTP retrieval-and-delivery pipeline of the grab-otp browser         *)
(* extension: the popup's handleGrabOTP, the background's message          *)
(* handlers, fetchOTPForDomain, processOTPRequest, copyToClipboard,        *)
(* showPopupWithResult and the bridge port registry, in both builds        *)
(* (Firefox: popup-firefox.ts + background-firefox.ts; Chrome: popup.ts +  *)
(* background.ts).  Every awaited platform or network call is one step     *)
(* whose outcome (value returned, or exception thrown) is chosen by the    *)
(* environment.                                                            *)
(***************************************************************************)
EXTENDS Integers, Sequences, FiniteSets, TLC

\* ---------------------------------------------------------------- bounds
MaxMsgs == 2       \* messages a search returns
MaxPage == 6       \* messages a search returns, where only the run is followed
MaxPorts == 2      \* bridge ports ever opened
MaxFrames == 1     \* frames of a tab that run the injected bridge
MaxOpens == 2      \* times the popup is opened again
MaxEpochs == 2     \* record lifetimes the clock runs through

\* ------------------------------------------------------- program constants
ScanLimit == 5     \* messages.slice(0, 5)
TTL == 60000       \* ms a stored outcome is shown for (checkForRecentResults)

Reqs == {1, 2}     \* requests, numbered in the order they are issued
Solo == {1}        \* Spec follows one request through the whole pipeline
Tabs == {1, 2}     \* the tab the popup is opened on, and another tab
Ports == 1..MaxPorts
Codes == {"482913", "7731"}
Statuses == {"401", "403", "500"}
None == "none"
NoPort == 0
NoTab == 0

\* Tabs are interchangeable: the tab the popup is opened on is numbered 1.
OriginTabs == {1}

\* hostname of the page shown in a tab (new URL(tab.url).hostname)
TabDomain(t) == IF t = 1 THEN "example.com" ELSE "shop.test"

Min(a, b) == IF a < b THEN a ELSE b

VARIABLES
  target,       \* which build runs: "firefox" or "chrome"
  pc,           \* pc[r]: position of request r in popup and background code
  uiAlive,      \* uiAlive[r]: the popup that issued r is still open
  req,          \* req[r]: the fetchOTP message {domain, autoFill, tabId}
  injReq,       \* injReq[r]: bridge injection was requested for r
  reply,        \* reply[r]: what the sender got back for its fetchOTP message
  msgs,         \* msgs[r]: what extractOTP yields for each message found
  idx,          \* idx[r]: bodies fetched so far by the scan loop
  net,          \* net[r]: outbound calls of the run, in order
  thrown,       \* thrown[r]: the error the run's catch block caught
  result,       \* result[r]: OTPResponse of fetchOTPForDomain
  branch,       \* branch[r]: delivery branch processOTPRequest took
  portSeen,     \* portSeen[r]: activePorts.get(tabId) when r completed
  posted,       \* posted[r]: fill-commands r posted, in order
  log,          \* log[r]: calls made on behalf of r, in program order
  clip,         \* clip[r]: progress of r's clipboard write
  clipTab,      \* clipTab[r]: tab the clipboard helper is injected into
  outcome,      \* outcome[r]: argument of showPopupWithResult
  writes,       \* writes[r]: successful storage.local.set calls made for r
  badgeSet,     \* badgeSet[r]: setBadgeText returned for r
  activePorts,  \* tab id -> registered port
  openPorts,    \* ports the background sees as connected
  closing,      \* disconnected ports whose onDisconnect listener has not run yet
  portTab,      \* port -> tab of its sender
  nextPort,     \* next unused port id
  pendingConn,  \* pendingConn[t]: injected agents of tab t not yet connected
  stored,       \* storage.local 'latest_otp_result' (NoOutcome: absent)
  badge,        \* browser action badge {text, color, title}
  clipboard,    \* system clipboard
  tokenCached,  \* storage.local holds oauth_token / oauth_expires (Firefox),
  now,          \* the clock (Date.now()), in ms since the first state
  storedAt,     \* timestamp field of the latest_otp_result record
  popupPc,      \* position of the open popup in checkForRecentResults
  view,         \* the outcome the open popup displays, NoOutcome if none
  viewAge,      \* age of that outcome when it was displayed
  shows,        \* popup opens that displayed the record now stored
  opens,        \* popups opened so far
  textContent,  \* textContent handed to extractOTP, a sequence of characters
  otpCode,      \* what extractOTP returned for it (NoCode: null)
  xpc,          \* "idle", "ready" (text built) or "done" (extractOTP returned)
  page,         \* the input elements of the page, in document order
  value,        \* value[e]: the value property of input e, a sequence of characters
  fpc,          \* "idle", "ready" (fillOTP called) or "done" (it returned)
  filled,       \* what fillOTP returned
  tries,        \* the tryFillInput calls fillOTP made: candidate, type, result, values left
  oauthExpires, \* storage.local 'oauth_expires' (Firefox), 0 if absent
  grant,        \* when the stored token was cached and the lifetime it came with
  lastRead,     \* the last getCachedToken call: when, what it found, returned and left
  grants,       \* getAccessToken calls that went past the cache so far
  tpc,          \* "idle" or "auth" (getCachedToken returned null, the auth flow runs)
  element,      \* the input calculateConfidence is called with
  viaSelector,  \* the entry of OTP_SELECTORS that matched it
  confidence,   \* what calculateConfidence returned
  cpc,          \* "idle", "ready" or "done": position of the calculateConfidence call
  message,      \* the GmailMessageResponse extractOTP is called with
  response,     \* response[r]: what fetchOTPWithAutoFill returned (Chrome)
  fillError,    \* fillError[r]: injectAndFillOTP threw (Chrome)
  injections    \* injections[r]: executeScript calls of injectAndFillOTP (Chrome)

vars == << target, pc, uiAlive, req, injReq, reply, msgs, idx, net, thrown,
           result, branch, now, storedAt, popupPc, view, viewAge, shows, opens,
           portSeen, posted, log, clip, clipTab, outcome, writes, badgeSet, activePorts,
           openPorts, closing, portTab, nextPort, pendingConn, stored, badge,
           clipboard, tokenCached, textContent, otpCode, xpc,
           page, value, fpc, filled, tries, oauthExpires, grant, lastRead, grants, tpc,
           element, viaSelector, confidence, cpc, message,
           response, fillError, injections >>

reqVars == << req, injReq >>
orchVars == << msgs, idx, net, thrown, result >>
portVars == << activePorts, openPorts, closing, portTab, nextPort, pendingConn >>
recVars == << outcome, writes, badgeSet, stored, badge >>
clipVars == << clip, clipTab, clipboard >>
popVars == << now, storedAt, popupPc, view, viewAge, shows, opens >>
viewVars == << now, popupPc, view, viewAge, opens >>
txtVars == << textContent, otpCode, xpc >>
domVars == << page, value, fpc, filled, tries >>
tokVars == << oauthExpires, grant, lastRead, grants, tpc >>
scoreVars == << element, viaSelector, confidence, cpc >>
fillVars == << response, fillError, injections >>
auxVars == << scoreVars, message, fillVars >>

\* extractOTP's null
NoCode == << >>

\* no message text is being examined
NoText == textContent = << >> /\ otpCode = NoCode /\ xpc = "idle"

NoGrant == [at |-> 0, life |-> 0]
NoRead == [at |-> 0, had |-> FALSE, exp |-> 0, got |-> FALSE, kept |-> FALSE]

\* the token cache has not been used
NoToken == oauthExpires = 0 /\ grant = NoGrant /\ lastRead = NoRead /\ grants = 0 /\ tpc = "idle"

\* no page is being filled
NoPage == page = << >> /\ value = << >> /\ fpc = "idle" /\ filled = FALSE /\ tries = << >>

NoReq == [domain |-> None, autoFill |-> FALSE, tabId |-> NoTab]
NoResult == [success |-> FALSE, otp |-> None, error |-> << >>]
NoOutcome == [success |-> FALSE, otp |-> None, domain |-> None, message |-> << >>]
NoBadge == [text |-> "", color |-> None, title |-> << >>]

\* injectAndFillOTP has not run and nothing was returned
NoFill ==
  /\ response = [r \in Reqs |-> NoResult]
  /\ fillError = [r \in Reqs |-> FALSE]
  /\ injections = [r \in Reqs |-> 0]

\* no input is being scored
NoScore == element = << >> /\ viaSelector = "" /\ confidence = 0 /\ cpc = "idle"

\* no message is being decoded
NoMail == message = << >>

\* the parts examined on their own are idle
NoAux == NoScore /\ NoMail /\ NoFill

\* no popup has been opened again and no time has passed
PopupClosed ==
  /\ now = 0
  /\ storedAt = 0
  /\ popupPc = "closed"
  /\ view = NoOutcome
  /\ viewAge = 0
  /\ shows = 0
  /\ opens = 0

\* the background script has been loaded and no request has been made
BackgroundIdle ==
  /\ pc = [r \in Reqs |-> "idle"]
  /\ uiAlive = [r \in Reqs |-> TRUE]
  /\ req = [r \in Reqs |-> NoReq]
  /\ injReq = [r \in Reqs |-> FALSE]
  /\ reply = [r \in Reqs |-> None]
  /\ msgs = [r \in Reqs |-> << >>]
  /\ idx = [r \in Reqs |-> 0]
  /\ net = [r \in Reqs |-> << >>]
  /\ thrown = [r \in Reqs |-> << >>]
  /\ result = [r \in Reqs |-> NoResult]
  /\ branch = [r \in Reqs |-> None]
  /\ portSeen = [r \in Reqs |-> NoPort]
  /\ posted = [r \in Reqs |-> << >>]
  /\ log = [r \in Reqs |-> << >>]
  /\ clip = [r \in Reqs |-> None]
  /\ clipTab = [r \in Reqs |-> NoTab]
  /\ outcome = [r \in Reqs |-> NoOutcome]
  /\ writes = [r \in Reqs |-> 0]
  /\ badgeSet = [r \in Reqs |-> FALSE]
  /\ activePorts = [t \in Tabs |-> NoPort]
  /\ openPorts = {}
  /\ closing = {}
  /\ portTab = [p \in Ports |-> NoTab]
  /\ nextPort = 1
  /\ pendingConn = [t \in Tabs |-> 0]
  /\ stored = NoOutcome
  /\ badge = NoBadge
  /\ clipboard = None
  /\ tokenCached = FALSE

Init ==
  /\ PopupClosed
  /\ NoText
  /\ NoPage
  /\ NoToken
  /\ NoAux
  /\ target \in {"firefox", "chrome"}
  /\ BackgroundIdle

\* ------------------------------------------------------------------ popup
\* handleGrabOTP up to its first message: tabs.query, then either the
\* injectBridge request (Firefox), the direct bridge injection (Chrome), or
\* the fetchOTP request.
SendFetchOTP(r, t, af) ==
  [domain |-> TabDomain(t), autoFill |-> af, tabId |-> t]

AfterQuery(af) ==
  IF af THEN "p_inject" ELSE "sent"

Click(r) ==
  /\ pc[r] = "idle"
  /\ \A q \in Reqs : q < r => pc[q] # "idle"
  /\ uiAlive[r]
  /\ \/ \* tab has no url or id, or tabs.query throws: error shown, nothing sent
        /\ pc' = [pc EXCEPT ![r] = "norequest"]
        /\ UNCHANGED req
     \/ \E t \in OriginTabs, af \in BOOLEAN :
          /\ req' = [req EXCEPT ![r] = SendFetchOTP(r, t, af)]
          /\ pc' = [pc EXCEPT ![r] = AfterQuery(af)]
  /\ UNCHANGED << target, auxVars, txtVars, domVars, tokVars, popVars, uiAlive, injReq, reply, orchVars, branch, portSeen,
                  posted, log, clipVars, recVars, portVars, tokenCached >>

\* The popup is closed (the user clicks away); its script stops running.
ClosePopup(r) ==
  /\ uiAlive[r]
  /\ pc[r] \notin {"idle", "norequest", "done"}
  /\ uiAlive' = [uiAlive EXCEPT ![r] = FALSE]
  /\ UNCHANGED << target, auxVars, txtVars, domVars, tokVars, popVars, pc, reqVars, reply, orchVars, branch, portSeen, posted, log,
                  clipVars, recVars, portVars, tokenCached >>

\* --------------------------------------------------------- bridge injection
\* injectBridgeScript(tabId): the agent is injected into k frames of the
\* tab (allFrames: true); each injected agent will open a port.
injectBridgeScript(tabId, k) ==
  [pendingConn EXCEPT ![tabId] = Min(@ + k, MaxPorts)]

\* Firefox background, 'injectBridge' handler: injectBridgeScript either
\* succeeds or throws; the reply carries success.
InjectBridge(r) ==
  /\ target = "firefox"
  /\ pc[r] = "p_inject"
  /\ injReq' = [injReq EXCEPT ![r] = TRUE]
  /\ \/ \E k \in 1..MaxFrames :
          /\ pendingConn' = injectBridgeScript(req[r].tabId, k)
          /\ pc' = [pc EXCEPT ![r] = "p_replyOk"]
     \/ /\ pc' = [pc EXCEPT ![r] = "p_replyFail"]
        /\ UNCHANGED pendingConn
  /\ UNCHANGED << target, auxVars, txtVars, domVars, tokVars, popVars, uiAlive, req, reply, orchVars, branch, portSeen,
                  posted, log, clipVars, recVars, activePorts, openPorts,
                  closing, portTab, nextPort, tokenCached >>

\* The same handler serving one earlier popup session on some tab, before
\* the request under study is issued: its agents may still be connected
\* later.
EarlierInjectBridge(t) ==
  /\ target = "firefox"
  /\ \A r \in Reqs : pc[r] = "idle"
  /\ \A u \in Tabs : pendingConn[u] = 0 /\ activePorts[u] = NoPort
  /\ nextPort = 1
  /\ \E k \in 1..MaxFrames : pendingConn' = injectBridgeScript(t, k)
  /\ UNCHANGED << target, auxVars, txtVars, domVars, tokVars, popVars, pc, uiAlive, reqVars, reply, orchVars, branch,
                  portSeen, posted, log, clipVars, recVars, activePorts,
                  openPorts, closing, portTab, nextPort, tokenCached >>

\* Chrome popup: chrome.scripting.executeScript({files: ['otp-bridge.js']})
\* run by the popup itself; a rejection is caught and the flow continues.
\* The Chrome background registers no onConnect listener, so the agent's
\* port never enters a registry.
ChromeInjectBridge(r) ==
  /\ target = "chrome"
  /\ pc[r] = "p_inject"
  /\ uiAlive[r]
  /\ injReq' = [injReq EXCEPT ![r] = TRUE]
  /\ \/ pc' = [pc EXCEPT ![r] = "p_wait"]
     \/ pc' = [pc EXCEPT ![r] = "sent"]
  /\ UNCHANGED << target, auxVars, txtVars, domVars, tokVars, popVars, uiAlive, req, reply, orchVars, branch, portSeen,
                  posted, log, clipVars, recVars, portVars, tokenCached >>

\* Firefox popup, after the injectBridge reply: on success wait 100 ms, on
\* failure (or a thrown sendMessage) go on in clipboard-only mode.
AfterInjectReply(ok) ==
  IF ok THEN "p_wait" ELSE "sent"

PopupAfterInject(r) ==
  /\ target = "firefox"
  /\ pc[r] \in {"p_replyOk", "p_replyFail"}
  /\ uiAlive[r]
  /\ pc' = [pc EXCEPT ![r] = AfterInjectReply(pc[r] = "p_replyOk")]
  /\ UNCHANGED << target, auxVars, txtVars, domVars, tokVars, popVars, uiAlive, reqVars, reply, orchVars, branch, portSeen, posted, log,
                  clipVars, recVars, portVars, tokenCached >>

\* The 100 ms timer fires and the popup sends the fetchOTP message.
PopupTimer(r) ==
  /\ pc[r] = "p_wait"
  /\ uiAlive[r]
  /\ pc' = [pc EXCEPT ![r] = "sent"]
  /\ UNCHANGED << target, auxVars, txtVars, domVars, tokVars, popVars, uiAlive, reqVars, reply, orchVars, branch, portSeen, posted, log,
                  clipVars, recVars, portVars, tokenCached >>

\* ------------------------------------------------------------ port registry
\* processOTPRequest reads the registry once, when fetchOTPForDomain has
\* returned a code for a request with autoFill and a tab id, and nothing
\* else in the background reads it.  A port event commutes with every step
\* before that read, so port events are explored where a request is about to
\* read; the agents of earlier sessions may also connect between requests.
AboutToRead ==
  \E r \in Reqs :
    /\ pc[r] = "deliver"
    /\ result[r].success /\ result[r].otp # None
    /\ req[r].autoFill /\ req[r].tabId # NoTab

RegistryObserved ==
  \/ \A r \in Reqs : pc[r] = "idle"
  \/ AboutToRead

addBridgePort(tabId, port) ==
  [activePorts EXCEPT ![tabId] = port]

removeBridgePort(tabId) ==
  [activePorts EXCEPT ![tabId] = NoPort]

\* runtime.onConnect: an injected agent of tab t opens a port; the background
\* registers it under the sender's tab id.
BridgeConnect(t) ==
  /\ target = "firefox"
  /\ RegistryObserved
  /\ pendingConn[t] > 0
  /\ nextPort <= MaxPorts
  /\ pendingConn' = [pendingConn EXCEPT ![t] = @ - 1]
  /\ openPorts' = openPorts \cup {nextPort}
  /\ portTab' = [portTab EXCEPT ![nextPort] = t]
  /\ activePorts' = addBridgePort(t, nextPort)
  /\ nextPort' = nextPort + 1
  /\ UNCHANGED << target, auxVars, txtVars, domVars, tokVars, popVars, pc, uiAlive, reqVars, reply, orchVars, branch,
                  portSeen, posted, log, clipVars, recVars, closing,
                  tokenCached >>

\* The page of the agent navigates or closes: the port is disconnected, and
\* its onDisconnect event is queued for the background.
PortDisconnected(p) ==
  /\ target = "firefox"
  /\ AboutToRead
  /\ p \in openPorts
  /\ openPorts' = openPorts \ {p}
  /\ closing' = closing \cup {p}
  /\ UNCHANGED << target, auxVars, txtVars, domVars, tokVars, popVars, pc, uiAlive, reqVars, reply, orchVars, branch,
                  portSeen, posted, log, clipVars, recVars, activePorts,
                  portTab, nextPort, pendingConn, tokenCached >>

\* port.onDisconnect listener: it deletes the record of the sender's tab id.
BridgeDisconnect(p) ==
  /\ target = "firefox"
  /\ AboutToRead
  /\ p \in closing
  /\ closing' = closing \ {p}
  /\ activePorts' = removeBridgePort(portTab[p])
  /\ UNCHANGED << target, auxVars, txtVars, domVars, tokVars, popVars, pc, uiAlive, reqVars, reply, orchVars, branch,
                  portSeen, posted, log, clipVars, recVars, openPorts, portTab,
                  nextPort, pendingConn, tokenCached >>

\* ------------------------------------------------- fetchOTP message handler
\* Firefox: the async listener calls processOTPRequest without awaiting it
\* and returns undefined.  Chrome: the listener returns true and answers
\* later through sendResponse.
\* a listener that sends nothing back until processOTPRequest has finished
HandleFetchOTPReply_Awaits(tg) == None

HandleFetchOTPReply(tg) ==
  IF tg = "firefox" THEN "empty" ELSE None

HandleFetchOTPStart(tg) ==
  IF tg = "firefox" THEN "token" ELSE "auth"

HandleFetchOTP(r) ==
  /\ pc[r] = "sent"
  /\ reply' = [reply EXCEPT ![r] = HandleFetchOTPReply(target)]
  /\ pc' = [pc EXCEPT ![r] = HandleFetchOTPStart(target)]
  /\ UNCHANGED << target, auxVars, txtVars, domVars, tokVars, popVars, uiAlive, reqVars, orchVars, branch, portSeen, posted, log,
                  clipVars, recVars, portVars, tokenCached >>

\* ------------------------------------------------------ fetchOTPForDomain
Failure(msg) == [success |-> FALSE, otp |-> None, error |-> msg]
Success(code) == [success |-> TRUE, otp |-> code, error |-> << >>]

AuthRequired == << "Gmail authentication required" >>
AuthExpired == << "Authentication expired - please try again" >>
NoOTPFound == << "No OTP found in recent emails" >>
NoEmailsFound(domain) == << "No recent emails found for", domain >>
NetworkError == << "NetworkError when attempting to fetch resource." >>
IdentityError == << "The user did not approve access." >>

\* the Error thrown by searchGmailMessages / getMessageDetail for a non-2xx
\* response with status s
ApiError(tg, s) ==
  IF tg = "firefox" /\ s = "401"
  THEN << "401", "Unauthorized - token expired" >>
  ELSE << "Gmail API error:", s >>

\* error.message.includes('401')
Includes401(msg) == \E i \in DOMAIN msg : msg[i] = "401"

\* a catch block that classifies nothing
IsAuthExpired_Never(tg, msg) == FALSE

\* the catch block of fetchOTPForDomain
IsAuthExpired(tg, msg) == tg = "firefox" /\ Includes401(msg)

CatchReason(tg, msg) ==
  IF IsAuthExpired(tg, msg) THEN AuthExpired ELSE msg

\* how an outbound call can fail: a non-2xx status, or no response at all
Failures == Statuses \cup {None}

ErrorOf(tg, f) == IF f = None THEN NetworkError ELSE ApiError(tg, f)

\* getCachedToken (Firefox): a cached, unexpired token is returned; an
\* expired one is removed from storage and the auth flow follows.
GetCachedToken(r) ==
  /\ target = "firefox"
  /\ pc[r] = "token"
  /\ \/ /\ tokenCached
        /\ pc' = [pc EXCEPT ![r] = "search"]
        /\ UNCHANGED tokenCached
     \/ /\ tokenCached' = FALSE
        /\ pc' = [pc EXCEPT ![r] = "auth"]
  /\ UNCHANGED << target, auxVars, txtVars, domVars, tokVars, popVars, uiAlive, reqVars, reply, orchVars, branch, portSeen, posted, log,
                  clipVars, recVars, portVars >>

\* the outbound calls of a run, each with the message it asks for and the
\* way it was answered
Ok == "ok"

Sent(r, call, i, answer) ==
  net' = [net EXCEPT ![r] = Append(@, [call |-> call, msg |-> i, status |-> answer])]

\* getAccessToken: launchWebAuthFlow + cacheToken (Firefox), getAuthToken
\* (Chrome, whose identity API keeps the token it issued).  No token: fail
\* fast.  Chrome's lastError rejects the promise and reaches the catch block
\* of fetchOTPForDomain.
AuthFlow(r) ==
  /\ pc[r] = "auth"
  /\ \/ /\ Sent(r, "auth", 0, Ok)
        /\ pc' = [pc EXCEPT ![r] = "search"]
        /\ tokenCached' \in (IF target = "firefox" THEN {TRUE, tokenCached}
                                                  ELSE {TRUE})
        /\ UNCHANGED << result, thrown >>
     \/ /\ Sent(r, "auth", 0, None)
        /\ result' = [result EXCEPT ![r] = Failure(AuthRequired)]
        /\ pc' = [pc EXCEPT ![r] = "returned"]
        /\ UNCHANGED << tokenCached, thrown >>
     \/ /\ target = "chrome"
        /\ Sent(r, "auth", 0, None)
        /\ thrown' = [thrown EXCEPT ![r] = IdentityError]
        /\ result' = [result EXCEPT ![r] = Failure(CatchReason(target, IdentityError))]
        /\ pc' = [pc EXCEPT ![r] = "returned"]
        /\ UNCHANGED tokenCached
  /\ UNCHANGED << target, auxVars, txtVars, domVars, tokVars, popVars, uiAlive, reqVars, reply, msgs, idx, branch, portSeen, posted, log,
                  clipVars, recVars, portVars >>

\* clearTokenCache: storage.local.remove of the token; a rejection is logged
\* and swallowed, leaving the token in place
ClearTokenCache == tokenCached' \in {FALSE, tokenCached}

\* a scan that logs the error of one message and goes on
Caught_Swallows(r, msg) ==
  /\ thrown' = [thrown EXCEPT ![r] = msg]
  /\ UNCHANGED << result, tokenCached, pc >>

\* the catch block as a step: the reason, and clearTokenCache on 401
Caught(r, msg) ==
  /\ thrown' = [thrown EXCEPT ![r] = msg]
  /\ result' = [result EXCEPT ![r] = Failure(CatchReason(target, msg))]
  /\ IF IsAuthExpired(target, msg) THEN ClearTokenCache ELSE UNCHANGED tokenCached
  /\ pc' = [pc EXCEPT ![r] = "returned"]

\* what a search can return: a page of up to n messages (the query asks
\* for at most 10), each of which yields a code or nothing under extractOTP
Bodies == Codes \cup {None}

Mailboxes(n) == UNION { [1..k -> Bodies] : k \in 1..n }

\* an empty-result check that lets every page through
NoMessages_Never(m) == FALSE

\* !messages || messages.length === 0 (data.messages || [] is a list)
NoMessages(m) == Len(m) = 0

\* searchGmailMessages and the empty-result check
SearchIn(r, boxes) ==
  /\ pc[r] = "search"
  /\ \/ \E m \in boxes \cup { << >> } :
          /\ Sent(r, "search", 0, Ok)
          /\ msgs' = [msgs EXCEPT ![r] = m]
          /\ IF NoMessages(m)
             THEN /\ result' = [result EXCEPT ![r] =
                                  Failure(NoEmailsFound(req[r].domain))]
                  /\ pc' = [pc EXCEPT ![r] = "returned"]
             ELSE /\ pc' = [pc EXCEPT ![r] = "scan"]
                  /\ UNCHANGED result
          /\ UNCHANGED << thrown, tokenCached >>
     \/ \E f \in Failures :
          /\ Sent(r, "search", 0, f)
          /\ Caught(r, ErrorOf(target, f))
          /\ UNCHANGED msgs
  /\ UNCHANGED << target, auxVars, txtVars, domVars, tokVars, popVars, uiAlive, reqVars, reply, idx, branch, portSeen, posted, log,
                  clipVars, recVars, portVars >>

Search(r) == SearchIn(r, Mailboxes(MaxMsgs))

\* a loop over every message of the page
ScanEnd_All(n) == n

\* messages.slice(0, 5)
ScanEnd(n) == Min(n, ScanLimit)

\* a loop that does not return on a code
ScanStops_Never(otp) == FALSE

\* if (otp) return: the loop stops at the first message that yields a code
ScanStops(otp) == otp # None

\* one iteration of the scan loop: getMessageDetail + extractOTP
FetchBody(r) ==
  /\ pc[r] = "scan"
  /\ idx' = [idx EXCEPT ![r] = @ + 1]
  /\ \/ /\ Sent(r, "fetch", idx[r] + 1, Ok)
        /\ IF ScanStops(msgs[r][idx[r] + 1])
           THEN /\ result' = [result EXCEPT ![r] = Success(msgs[r][idx[r] + 1])]
                /\ pc' = [pc EXCEPT ![r] = "returned"]
           ELSE IF idx[r] + 1 >= ScanEnd(Len(msgs[r]))
           THEN /\ result' = [result EXCEPT ![r] = Failure(NoOTPFound)]
                /\ pc' = [pc EXCEPT ![r] = "returned"]
           ELSE UNCHANGED << result, pc >>
        /\ UNCHANGED << thrown, tokenCached >>
     \/ \E f \in Failures :
          /\ Sent(r, "fetch", idx[r] + 1, f)
          /\ Caught(r, ErrorOf(target, f))
  /\ UNCHANGED << target, auxVars, txtVars, domVars, tokVars, popVars, uiAlive, reqVars, reply, msgs, branch, portSeen, posted, log,
                  clipVars, recVars, portVars >>

\* fetchOTPForDomain returns its OTPResponse: the locals of the run are gone
FetchReturns(r) ==
  /\ pc[r] = "returned"
  /\ pc' = [pc EXCEPT ![r] = "deliver"]
  /\ msgs' = [msgs EXCEPT ![r] = << >>]
  /\ idx' = [idx EXCEPT ![r] = 0]
  /\ net' = [net EXCEPT ![r] = << >>]
  /\ thrown' = [thrown EXCEPT ![r] = << >>]
  /\ UNCHANGED << target, auxVars, txtVars, domVars, tokVars, popVars, uiAlive, reqVars, reply, result, branch, portSeen, posted, log,
                  clipVars, recVars, portVars, tokenCached >>

\* ------------------------------------------------ processOTPRequest (Firefox)
\* which branch the code after `await fetchOTPForDomain` takes
\* a coordinator that treats a missing port as a failed retrieval
DeliveryBranch_NoPortFails(res, rq, ports) ==
  IF res.success /\ res.otp # None
  THEN IF rq.autoFill /\ rq.tabId # NoTab
       THEN IF ports[rq.tabId] # NoPort THEN "bridge" ELSE "failed"
       ELSE "clipboard"
  ELSE "failed"

\* a coordinator that uses the tab's port whether or not autoFill was asked
DeliveryBranch_IgnoresAutoFill(res, rq, ports) ==
  IF res.success /\ res.otp # None
  THEN IF rq.tabId # NoTab
       THEN IF ports[rq.tabId] # NoPort THEN "bridge" ELSE "nobridge"
       ELSE "clipboard"
  ELSE "failed"

DeliveryBranch(res, rq, ports) ==
  IF res.success /\ res.otp # None
  THEN IF rq.autoFill /\ rq.tabId # NoTab
       THEN IF ports[rq.tabId] # NoPort THEN "bridge" ELSE "nobridge"
       ELSE "clipboard"
  ELSE "failed"

FillCommand(port, otp) == [port |-> port, action |-> "fillOTP", otp |-> otp]

SuccessSuffix(b) ==
  CASE b = "bridge" -> "(auto-filled & copied)"
    [] b = "nobridge" -> "(copied to clipboard - auto-fill failed)"
    [] OTHER -> "(copied to clipboard)"

SuccessOutcome(res, rq, b) ==
  [success |-> TRUE, otp |-> res.otp, domain |-> rq.domain,
   message |-> << "OTP:", res.otp, SuccessSuffix(b) >>]

FailureOutcome(res, rq) ==
  [success |-> FALSE, otp |-> None, domain |-> rq.domain,
   message |-> IF res.error # << >> THEN res.error
               ELSE << "No OTP found in recent emails for", rq.domain >>]

\* the outer catch block: `Error: ${errorMessage}`
ErrorOutcome(rq, msg) ==
  [success |-> FALSE, otp |-> None, domain |-> rq.domain,
   message |-> << "Error:" >> \o msg]

PostMessageError == << "Attempt to postMessage on disconnected port" >>

Logged(r, calls) == [log EXCEPT ![r] = @ \o calls]

\* The code that runs when fetchOTPForDomain has returned, up to the next
\* await: the branch, the fill-command, and the call of copyToClipboard or
\* showPopupWithResult.
Deliver(r) ==
  /\ target = "firefox"
  /\ pc[r] = "deliver"
  /\ portSeen' = [portSeen EXCEPT ![r] =
                    IF req[r].tabId # NoTab THEN activePorts[req[r].tabId]
                                            ELSE NoPort]
  /\ LET b == DeliveryBranch(result[r], req[r], activePorts) IN
       \/ /\ b = "bridge"
          /\ activePorts[req[r].tabId] \in openPorts
          /\ posted' = [posted EXCEPT ![r] =
                Append(@, FillCommand(activePorts[req[r].tabId], result[r].otp))]
          /\ log' = Logged(r, << "postMessage", "copyToClipboard" >>)
          /\ branch' = [branch EXCEPT ![r] = b]
          /\ pc' = [pc EXCEPT ![r] = "clipQuery"]
          /\ UNCHANGED outcome
       \/ /\ b = "bridge"
          \* the port is disconnected: port.postMessage throws and the outer
          \* catch block runs
          /\ activePorts[req[r].tabId] \notin openPorts
          /\ log' = Logged(r, << "postMessage", "showPopupWithResult" >>)
          /\ branch' = [branch EXCEPT ![r] = "threw"]
          /\ outcome' = [outcome EXCEPT ![r] =
                           ErrorOutcome(req[r], PostMessageError)]
          /\ pc' = [pc EXCEPT ![r] = "store1"]
          /\ UNCHANGED posted
       \/ /\ b \in {"nobridge", "clipboard"}
          /\ log' = Logged(r, << "copyToClipboard" >>)
          /\ branch' = [branch EXCEPT ![r] = b]
          /\ pc' = [pc EXCEPT ![r] = "clipQuery"]
          /\ UNCHANGED << posted, outcome >>
       \/ /\ b = "failed"
          /\ log' = Logged(r, << "showPopupWithResult" >>)
          /\ branch' = [branch EXCEPT ![r] = b]
          /\ outcome' = [outcome EXCEPT ![r] = FailureOutcome(result[r], req[r])]
          /\ pc' = [pc EXCEPT ![r] = "store1"]
          /\ UNCHANGED posted
  /\ UNCHANGED << target, auxVars, txtVars, domVars, tokVars, popVars, uiAlive, reqVars, reply, orchVars, clipVars,
                  writes, badgeSet, stored, badge, portVars, tokenCached >>

\* ----------------------------------------------- copyToClipboard (Firefox)
\* copyToClipboard returns (it never rethrows) and processOTPRequest calls
\* showPopupWithResult with the success outcome.
ClipboardReturns(r) ==
  /\ outcome' = [outcome EXCEPT ![r] = SuccessOutcome(result[r], req[r], branch[r])]
  /\ log' = Logged(r, << "showPopupWithResult" >>)
  /\ pc' = [pc EXCEPT ![r] = "store1"]

\* the injected helper validates /^\d{4,8}$/ before it writes
ValidOTPFormat(text) == Len(text) >= 4 /\ Len(text) <= 8

\* await browser.tabs.query({active: true, currentWindow: true})
ClipQuery(r) ==
  /\ target = "firefox"
  /\ pc[r] = "clipQuery"
  /\ \/ \E a \in Tabs :
          /\ clipTab' = [clipTab EXCEPT ![r] = a]
          /\ clip' = [clip EXCEPT ![r] = "injecting"]
          /\ pc' = [pc EXCEPT ![r] = "clipInject"]
          /\ UNCHANGED << outcome, log >>
     \/ \* no active tab, or tabs.query throws
        /\ clip' = [clip EXCEPT ![r] = "failed"]
        /\ ClipboardReturns(r)
        /\ UNCHANGED clipTab
  /\ UNCHANGED << target, auxVars, txtVars, domVars, tokVars, popVars, uiAlive, reqVars, reply, orchVars, branch, portSeen, posted,
                  clipboard, writes, badgeSet, stored, badge, portVars,
                  tokenCached >>

\* await browser.tabs.executeScript(results[0].id, {code: ...})
ClipInject(r) ==
  /\ target = "firefox"
  /\ pc[r] = "clipInject"
  /\ \/ /\ ValidOTPFormat(result[r].otp)
        /\ clipboard' = result[r].otp
        /\ clip' = [clip EXCEPT ![r] = "written"]
     \/ \* the injection is rejected, or the page's clipboard API refuses
        /\ clip' = [clip EXCEPT ![r] = "failed"]
        /\ UNCHANGED clipboard
  /\ ClipboardReturns(r)
  /\ UNCHANGED << target, auxVars, txtVars, domVars, tokVars, popVars, uiAlive, reqVars, reply, orchVars, branch, portSeen, posted,
                  clipTab, writes, badgeSet, stored, badge, portVars,
                  tokenCached >>

\* ------------------------------------------- showPopupWithResult (Firefox)
Glyph(success) == IF success THEN "check" ELSE "cross"
BadgeColor(success) == IF success THEN "#4CAF50" ELSE "#F44336"
BadgeTitle(o) ==
  IF o.success THEN << "OTP Ready:", o.otp, "(click to view)" >>
  ELSE << "OTP Error (click to view)" >>

\* where control goes when a call inside the try block throws: the catch
\* block, whose fallback stores the result
OnRecordThrow == "store2"

\* await browser.storage.local.set({latest_otp_result: ...})
StoreResult(r) ==
  /\ target = "firefox"
  /\ pc[r] = "store1"
  /\ log' = Logged(r, << "storage.set" >>)
  /\ \/ /\ stored' = outcome[r]
        /\ storedAt' = now
        /\ shows' = 0
        /\ writes' = [writes EXCEPT ![r] = @ + 1]
        /\ pc' = [pc EXCEPT ![r] = "badgeText"]
     \/ /\ pc' = [pc EXCEPT ![r] = OnRecordThrow]
        /\ UNCHANGED << stored, storedAt, shows, writes >>
  /\ UNCHANGED << target, auxVars, txtVars, domVars, tokVars, viewVars, uiAlive, reqVars, reply, orchVars, branch, portSeen, posted,
                  clipVars, outcome, badgeSet, badge, portVars, tokenCached >>

\* await browser.browserAction.setBadgeText({text: ...})
SetBadgeText(r) ==
  /\ target = "firefox"
  /\ pc[r] = "badgeText"
  /\ log' = Logged(r, << "setBadgeText" >>)
  /\ \/ /\ badge' = [badge EXCEPT !.text = Glyph(outcome[r].success)]
        /\ badgeSet' = [badgeSet EXCEPT ![r] = TRUE]
        /\ pc' = [pc EXCEPT ![r] = "badgeColor"]
     \/ /\ pc' = [pc EXCEPT ![r] = OnRecordThrow]
        /\ UNCHANGED << badge, badgeSet >>
  /\ UNCHANGED << target, auxVars, txtVars, domVars, tokVars, popVars, uiAlive, reqVars, reply, orchVars, branch, portSeen, posted,
                  clipVars, outcome, writes, stored, portVars, tokenCached >>

\* await browser.browserAction.setBadgeBackgroundColor({color: ...})
SetBadgeColor(r) ==
  /\ target = "firefox"
  /\ pc[r] = "badgeColor"
  /\ log' = Logged(r, << "setBadgeBackgroundColor" >>)
  /\ \/ /\ badge' = [badge EXCEPT !.color = BadgeColor(outcome[r].success)]
        /\ pc' = [pc EXCEPT ![r] = "badgeTitle"]
     \/ /\ pc' = [pc EXCEPT ![r] = OnRecordThrow]
        /\ UNCHANGED badge
  /\ UNCHANGED << target, auxVars, txtVars, domVars, tokVars, popVars, uiAlive, reqVars, reply, orchVars, branch, portSeen, posted,
                  clipVars, outcome, writes, badgeSet, stored, portVars,
                  tokenCached >>

\* await browser.browserAction.setTitle({title: ...})
SetBadgeTitle(r) ==
  /\ target = "firefox"
  /\ pc[r] = "badgeTitle"
  /\ log' = Logged(r, << "setTitle" >>)
  /\ \/ /\ badge' = [badge EXCEPT !.title = BadgeTitle(outcome[r])]
        /\ pc' = [pc EXCEPT ![r] = "done"]
     \/ /\ pc' = [pc EXCEPT ![r] = OnRecordThrow]
        /\ UNCHANGED badge
  /\ UNCHANGED << target, auxVars, txtVars, domVars, tokVars, popVars, uiAlive, reqVars, reply, orchVars, branch, portSeen, posted,
                  clipVars, outcome, writes, badgeSet, stored, portVars,
                  tokenCached >>

\* the catch block's fallback: store the result again; a second failure is
\* logged and swallowed
StoreFallback(r) ==
  /\ target = "firefox"
  /\ pc[r] = "store2"
  /\ log' = Logged(r, << "storage.set" >>)
  /\ \/ /\ stored' = outcome[r]
        /\ storedAt' = now
        /\ shows' = 0
        /\ writes' = [writes EXCEPT ![r] = @ + 1]
     \/ UNCHANGED << stored, storedAt, shows, writes >>
  /\ pc' = [pc EXCEPT ![r] = "done"]
  /\ UNCHANGED << target, auxVars, txtVars, domVars, tokVars, viewVars, uiAlive, reqVars, reply, orchVars, branch, portSeen, posted,
                  clipVars, outcome, badgeSet, badge, portVars, tokenCached >>

\* --------------------------------------------- fetchOTPWithAutoFill (Chrome)
ChromeWantsFill(res, rq) == res.success /\ res.otp # None /\ rq.autoFill

ChromeDeliver(r) ==
  /\ target = "chrome"
  /\ pc[r] = "deliver"
  /\ IF ChromeWantsFill(result[r], req[r])
     THEN /\ pc' = [pc EXCEPT ![r] = "c_fill"]
          /\ branch' = [branch EXCEPT ![r] = "autofill"]
          /\ log' = Logged(r, << "injectAndFillOTP" >>)
     ELSE /\ pc' = [pc EXCEPT ![r] = "c_respond"]
          /\ branch' = [branch EXCEPT ![r] = "plain"]
          /\ UNCHANGED log
  /\ UNCHANGED << target, auxVars, txtVars, domVars, tokVars, popVars, uiAlive, reqVars, reply, orchVars, portSeen, posted, clipVars,
                  recVars, portVars, tokenCached >>

\* injectAndFillOTP: without an active tab id it throws before any injection;
\* otherwise executeScript is called and resolves or rejects (the timer's
\* callback catches its own errors); fetchOTPWithAutoFill catches the throw
ChromeInjectAndFill(r) ==
  /\ target = "chrome"
  /\ pc[r] = "c_fill"
  /\ \E tabFound \in BOOLEAN, rejected \in BOOLEAN :
        /\ ~ tabFound => rejected
        /\ injections' = [injections EXCEPT ![r] = IF tabFound THEN @ + 1 ELSE @]
        /\ fillError' = [fillError EXCEPT ![r] = rejected]
  /\ pc' = [pc EXCEPT ![r] = "c_respond"]
  /\ UNCHANGED << target, scoreVars, message, response, txtVars, domVars, tokVars, popVars, uiAlive, reqVars, reply, orchVars, branch, portSeen, posted,
                  log, clipVars, recVars, portVars, tokenCached >>

\* a return value that reports the auto-fill error
ChromeReturn_FillError(otpResponse, threw) ==
  IF threw THEN [success |-> FALSE, otp |-> None, error |-> << "auto-fill" >>]
  ELSE otpResponse

\* return otpResponse, after the try/catch around injectAndFillOTP
ChromeReturn(otpResponse, threw) == otpResponse

\* .then(sendResponse): the response reaches the popup if it is still open
ChromeRespond(r) ==
  /\ target = "chrome"
  /\ pc[r] = "c_respond"
  /\ response' = [response EXCEPT ![r] = ChromeReturn(result[r], fillError[r])]
  /\ log' = Logged(r, << "sendResponse" >>)
  /\ IF uiAlive[r]
     THEN /\ reply' = [reply EXCEPT ![r] = "result"]
          /\ pc' = [pc EXCEPT ![r] = "c_popup"]
     ELSE /\ pc' = [pc EXCEPT ![r] = "done"]
          /\ UNCHANGED reply
  /\ UNCHANGED << target, scoreVars, message, fillError, injections, txtVars, domVars, tokVars, popVars, uiAlive, reqVars, orchVars, branch, portSeen, posted, clipVars,
                  recVars, portVars, tokenCached >>

\* Chrome popup, after `await chrome.runtime.sendMessage(...)`: on success
\* navigator.clipboard.writeText in the popup, then the status line
ChromePopupResult(r) ==
  /\ target = "chrome"
  /\ pc[r] = "c_popup"
  /\ uiAlive[r]
  /\ IF response[r].success /\ response[r].otp # None
     THEN /\ log' = Logged(r, << "copyToClipboard" >>)
          /\ \/ /\ clipboard' = response[r].otp
                /\ clip' = [clip EXCEPT ![r] = "written"]
             \/ /\ clip' = [clip EXCEPT ![r] = "failed"]
                /\ UNCHANGED clipboard
     ELSE UNCHANGED << clip, clipboard, log >>
  /\ pc' = [pc EXCEPT ![r] = "done"]
  /\ UNCHANGED << target, auxVars, txtVars, domVars, tokVars, popVars, uiAlive, reqVars, reply, orchVars, branch, portSeen, posted,
                  clipTab, recVars, portVars, tokenCached >>

\* ------------------------------------------------------------ specification
Next ==
  \/ \E r \in Solo : Click(r)
  \/ \E r \in Solo : ClosePopup(r)
  \/ \E r \in Solo : InjectBridge(r)
  \/ \E t \in Tabs : EarlierInjectBridge(t)
  \/ \E r \in Solo : ChromeInjectBridge(r)
  \/ \E r \in Solo : PopupAfterInject(r)
  \/ \E r \in Solo : PopupTimer(r)
  \/ \E t \in Tabs : BridgeConnect(t)
  \/ \E p \in Ports : PortDisconnected(p)
  \/ \E p \in Ports : BridgeDisconnect(p)
  \/ \E r \in Solo : HandleFetchOTP(r)
  \/ \E r \in Solo : GetCachedToken(r)
  \/ \E r \in Solo : AuthFlow(r)
  \/ \E r \in Solo : Search(r)
  \/ \E r \in Solo : FetchBody(r)
  \/ \E r \in Solo : FetchReturns(r)
  \/ \E r \in Solo : Deliver(r)
  \/ \E r \in Solo : ClipQuery(r)
  \/ \E r \in Solo : ClipInject(r)
  \/ \E r \in Solo : StoreResult(r)
  \/ \E r \in Solo : SetBadgeText(r)
  \/ \E r \in Solo : SetBadgeColor(r)
  \/ \E r \in Solo : SetBadgeTitle(r)
  \/ \E r \in Solo : StoreFallback(r)
  \/ \E r \in Solo : ChromeDeliver(r)
  \/ \E r \in Solo : ChromeInjectAndFill(r)
  \/ \E r \in Solo : ChromeRespond(r)
  \/ \E r \in Solo : ChromePopupResult(r)

Spec == Init /\ [][Next]_vars

\* Every background or platform step of request r.  The browser runs each
\* continuation once its awaited call settles; the popup's own steps and the
\* port events carry no such guarantee.
BgStep(r) ==
  \/ HandleFetchOTP(r)
  \/ GetCachedToken(r)
  \/ AuthFlow(r)
  \/ Search(r)
  \/ FetchBody(r)
  \/ FetchReturns(r)
  \/ Deliver(r)
  \/ ClipQuery(r)
  \/ ClipInject(r)
  \/ StoreResult(r)
  \/ SetBadgeText(r)
  \/ SetBadgeColor(r)
  \/ SetBadgeTitle(r)
  \/ StoreFallback(r)
  \/ ChromeDeliver(r)
  \/ ChromeInjectAndFill(r)
  \/ ChromeRespond(r)

FairSpec == Spec /\ \A r \in Reqs : WF_vars(BgStep(r))

\* One run of fetchOTPForDomain followed on its own, over longer pages of
\* search results: it starts where handleFetchOTP has taken the request,
\* with or without a token left by an earlier run.
ScanInit ==
  /\ PopupClosed
  /\ NoText
  /\ NoPage
  /\ NoToken
  /\ NoAux
  /\ target \in {"firefox", "chrome"}
  /\ pc = [r \in Reqs |-> IF r \in Solo THEN HandleFetchOTPStart(target) ELSE "idle"]
  /\ uiAlive = [r \in Reqs |-> TRUE]
  /\ req = [r \in Reqs |-> IF r \in Solo THEN SendFetchOTP(r, 1, FALSE) ELSE NoReq]
  /\ injReq = [r \in Reqs |-> FALSE]
  /\ reply = [r \in Reqs |-> IF r \in Solo THEN HandleFetchOTPReply(target) ELSE None]
  /\ msgs = [r \in Reqs |-> << >>]
  /\ idx = [r \in Reqs |-> 0]
  /\ net = [r \in Reqs |-> << >>]
  /\ thrown = [r \in Reqs |-> << >>]
  /\ result = [r \in Reqs |-> NoResult]
  /\ branch = [r \in Reqs |-> None]
  /\ portSeen = [r \in Reqs |-> NoPort]
  /\ posted = [r \in Reqs |-> << >>]
  /\ log = [r \in Reqs |-> << >>]
  /\ clip = [r \in Reqs |-> None]
  /\ clipTab = [r \in Reqs |-> NoTab]
  /\ outcome = [r \in Reqs |-> NoOutcome]
  /\ writes = [r \in Reqs |-> 0]
  /\ badgeSet = [r \in Reqs |-> FALSE]
  /\ activePorts = [t \in Tabs |-> NoPort]
  /\ openPorts = {}
  /\ closing = {}
  /\ portTab = [p \in Ports |-> NoTab]
  /\ nextPort = 1
  /\ pendingConn = [t \in Tabs |-> 0]
  /\ stored = NoOutcome
  /\ badge = NoBadge
  /\ clipboard = None
  /\ tokenCached \in BOOLEAN

PageSearch(r) == SearchIn(r, Mailboxes(MaxPage))

ScanNext ==
  \/ \E r \in Solo : GetCachedToken(r)
  \/ \E r \in Solo : AuthFlow(r)
  \/ \E r \in Solo : PageSearch(r)
  \/ \E r \in Solo : FetchBody(r)
  \/ \E r \in Solo : FetchReturns(r)

ScanSpec == ScanInit /\ [][ScanNext]_vars

\* ------------------------------------------------------------------ claims
Done(r) == pc[r] = "done"

\* call c was made on behalf of r
Called(r, c) == \E i \in DOMAIN log[r] : log[r][i] = c

\* every call of a comes before every call of b in r's log
Before(r, a, b) ==
  \A i, j \in DOMAIN log[r] : (log[r][i] = a /\ log[r][j] = b) => i < j

\* positions of the popup before the background has received fetchOTP
BeforeHandler ==
  {"idle", "norequest", "p_inject", "p_replyOk", "p_replyFail", "p_wait", "sent"}

\* positions inside or after showPopupWithResult
Recording ==
  {"store1", "badgeText", "badgeColor", "badgeTitle", "store2", "done"}

\* C1: every Firefox request that has finished has written the
\* latest_otp_result record exactly once, whatever the storage and badge
\* calls inside showPopupWithResult did.
C1_ExactlyOneWrite ==
  \A r \in Reqs : (target = "firefox" /\ Done(r)) => writes[r] = 1

\* C2: every Firefox request that has finished has its outcome in
\* latest_otp_result and the badge set to the glyph of that outcome; the
\* record and the badge are never one without the other.
C2_RecordAndBadge ==
  \A r \in Reqs : (target = "firefox" /\ Done(r)) =>
    /\ writes[r] >= 1
    /\ stored = outcome[r]
    /\ badgeSet[r]
    /\ badge.text = Glyph(outcome[r].success)

\* C3: once the Firefox background has begun to process a fetchOTP message
\* the sender already holds an acknowledgment without result data, at every
\* later stage (credentials, search, body fetch, delivery); and a request the
\* background has begun to process reaches its terminal state, whether or not
\* the popup is still there to read anything.
C3_AckThenFinish ==
  /\ [](\A r \in Reqs :
          (target = "firefox" /\ pc[r] \notin BeforeHandler) => reply[r] = "empty")
  /\ \A r \in Reqs : (target = "firefox" /\ pc[r] = "token") ~> Done(r)

C3_Witness ==
  \E r \in Reqs :
    /\ target = "firefox" /\ Done(r)
    /\ reply[r] = "empty"
    /\ ~uiAlive[r]
    /\ writes[r] = 1 /\ stored = outcome[r]

\* C4: in either build, when the popup was closed before retrieval finished
\* and retrieval succeeded, the clipboard write was made and the outcome was
\* stored for the next popup.
C4_CompletesWithoutPopup ==
  \A r \in Reqs : (Done(r) /\ ~uiAlive[r] /\ result[r].success) =>
    /\ Called(r, "copyToClipboard")
    /\ Called(r, "storage.set")

\* C5: when retrieval succeeded, autoFill was asked and the registry held a
\* port for the request's tab at completion, exactly one fillOTP message
\* carrying the code was posted on that port, the clipboard write was made,
\* the fill-command came first and both came before the outcome was recorded.
C5_BridgeThenClipboard ==
  \A r \in Reqs :
    (target = "firefox" /\ Done(r) /\ result[r].success /\ req[r].autoFill
       /\ portSeen[r] # NoPort) =>
      /\ posted[r] = << FillCommand(portSeen[r], result[r].otp) >>
      /\ Called(r, "copyToClipboard")
      /\ Before(r, "postMessage", "copyToClipboard")
      /\ Before(r, "copyToClipboard", "storage.set")

C8_FailureRecorded ==
  \A r \in Reqs :
    (target = "firefox" /\ Done(r) /\ ~result[r].success) =>
      /\ ~Called(r, "copyToClipboard")
      /\ posted[r] = << >>
      /\ outcome[r] = FailureOutcome(result[r], req[r])
      /\ outcome[r].message = result[r].error
      /\ Called(r, "storage.set")
      /\ Called(r, "setBadgeText")

\* C9: when the clipboard write failed, the request still records the
\* success outcome carrying the code and sets the success badge.
C9_ClipboardFailureSwallowed ==
  \A r \in Reqs :
    (target = "firefox" /\ Done(r) /\ clip[r] = "failed") =>
      /\ outcome[r].success /\ outcome[r].otp = result[r].otp
      /\ Called(r, "storage.set")
      /\ Called(r, "setBadgeText")

\* C10: when port.postMessage threw on the registered port, the clipboard
\* write is still made and the outcome still reports success with the code.
C10_BridgeFailureDegrades ==
  \A r \in Reqs :
    (target = "firefox" /\ Done(r) /\ branch[r] = "threw") =>
      /\ Called(r, "copyToClipboard")
      /\ outcome[r].success /\ outcome[r].otp = result[r].otp

\* ports of tab t that the background sees as connected
OpenPortsOf(t) == { p \in openPorts : portTab[p] = t }

\* C11: at every moment each tab has at most one open bridge port, also after
\* a second injection into a tab whose agent is connected and after an
\* injection into several frames.
C11_OneOpenPortPerTab ==
  \A t \in Tabs : Cardinality(OpenPortsOf(t)) <= 1

\* C12: the registry never holds a disconnected port, and no fill-command is
\* sent on a port that is disconnected at the moment of the send.
C12_SendsOnOpenPorts ==
  /\ \A t \in Tabs : activePorts[t] # NoPort => activePorts[t] \in openPorts
  /\ \A r \in Reqs : branch[r] # "threw"


\* ------------------------------------------------------- the scan, claims
\* the messages the run asked for, in the order it asked
Fetched(r) ==
  LET f == SelectSeq(net[r], LAMBDA e : e.call = "fetch")
  IN  [i \in DOMAIN f |-> f[i].msg]

\* position of the first message, among the first ScanLimit, that yields a
\* code; 0 if none does
FirstHit(m) ==
  LET hits == { i \in 1..ScanEnd(Len(m)) : m[i] # None }
  IN  IF hits = {} THEN 0 ELSE CHOOSE i \in hits : \A j \in hits : i <= j

Returned(r) == pc[r] = "returned"

\* C16: the scan is sequential and short-circuiting.  At every moment the
\* messages fetched so far are 1, 2, ... in search order, one per step, and
\* never one beyond the first message that yields a code; a run whose calls
\* were all answered and whose first code is in message k returns after
\* exactly k fetches with the code of message k.
C16_ShortCircuit ==
  \A r \in Reqs :
    /\ Fetched(r) = [i \in 1..idx[r] |-> i]
    /\ FirstHit(msgs[r]) # 0 => idx[r] <= FirstHit(msgs[r])
    /\ (Returned(r) /\ thrown[r] = << >> /\ FirstHit(msgs[r]) # 0) =>
         /\ Len(Fetched(r)) = FirstHit(msgs[r])
         /\ result[r] = Success(msgs[r][FirstHit(msgs[r])])

\* five messages, only the third with a code, another code further on
C16_Witness ==
  \E r \in Reqs :
    /\ Returned(r)
    /\ Len(msgs[r]) >= 5
    /\ FirstHit(msgs[r]) = 3
    /\ \E j \in 4..5 : msgs[r][j] \notin {None, msgs[r][3]}
    /\ Fetched(r) = << 1, 2, 3 >>
    /\ result[r] = Success(msgs[r][3])


Calls(r, call) == SelectSeq(net[r], LAMBDA e : e.call = call)

\* C17: per request at most one credential acquisition, at most one search
\* and at most ScanLimit body fetches are made, no call is made twice, so
\* that the outbound calls never exceed 11; and a run whose calls were all
\* answered and that finds no code in the first ScanLimit messages ends
\* with 'No OTP found in recent emails'.
C17_CallBudget ==
  \A r \in Reqs :
    /\ Len(Calls(r, "auth")) <= 1
    /\ Len(Calls(r, "search")) <= 1
    /\ Len(Calls(r, "fetch")) <= ScanLimit
    /\ \A i, j \in DOMAIN net[r] :
         (net[r][i].call = net[r][j].call /\ net[r][i].msg = net[r][j].msg) => i = j
    /\ \A i \in DOMAIN net[r] : net[r][i].status # Ok => i = Len(net[r])
    /\ Len(net[r]) <= 11
    /\ (Returned(r) /\ thrown[r] = << >> /\ Len(msgs[r]) > 0 /\ FirstHit(msgs[r]) = 0) =>
         result[r] = Failure(NoOTPFound)

\* a page of more than ScanLimit messages whose only code lies beyond the
\* limit: the run stops after ScanLimit fetches and reports no code
C17_Witness ==
  \E r \in Reqs :
    /\ Returned(r)
    /\ Len(msgs[r]) > ScanLimit
    /\ msgs[r][ScanLimit + 1] # None
    /\ Len(Calls(r, "auth")) = 1
    /\ Len(Calls(r, "search")) = 1
    /\ Len(Calls(r, "fetch")) = ScanLimit
    /\ result[r] = Failure(NoOTPFound)


\* the last outbound call of the run
LastCall(r) == net[r][Len(net[r])]

\* the run ended because the search or a body fetch was answered with status s
Rejected(r, s) ==
  /\ Returned(r)
  /\ net[r] # << >>
  /\ LastCall(r).call \in {"search", "fetch"}
  /\ LastCall(r).status = s

\* C18: in the Firefox orchestrator a 401 answer to the search or to a body
\* fetch gives the reason 'Authentication expired - please try again', and
\* any other non-2xx status s gives the reason 'Gmail API error: s'; the
\* first reason is given for no other status and carries no status.
C18_AuthExpiredDistinct ==
  \A r \in Reqs, s \in Statuses :
    (target = "firefox" /\ Rejected(r, s)) =>
       /\ ~result[r].success
       /\ s = "401" => result[r].error = AuthExpired
       /\ s # "401" => result[r].error = << "Gmail API error:", s >>
       /\ result[r].error = AuthExpired <=> s = "401"

\* a body fetch answered 401 after an answered search
C18_Witness ==
  \E r \in Reqs :
    /\ target = "firefox"
    /\ Rejected(r, "401")
    /\ LastCall(r).call = "fetch"
    /\ result[r] = Failure(AuthExpired)


\* some call of the run was answered 401
Answered401(r) == \E i \in DOMAIN net[r] : net[r][i].status = "401"

\* C19: in each background variant, when a run in which the remote API
\* answered 401 produces its outcome, the rejected token is no longer held,
\* so the next request has to acquire a credential again.
C19_RejectedTokenInvalidated ==
  \A r \in Reqs : (Returned(r) /\ Answered401(r)) => ~tokenCached


\* the reason under which a failed call surfaces
Surfaced(tg, f) ==
  IF f = None THEN NetworkError
  ELSE IF tg = "firefox" /\ f = "401" THEN AuthExpired
  ELSE << "Gmail API error:", f >>

\* C20: when the search or the body fetch of message k fails, with a
\* transport error or a non-2xx answer, that call is the last of the run:
\* the run returns a failure whose reason is that error, no message after k
\* is fetched and no success is reported, whatever the later messages hold.
C20_ErrorAborts ==
  \A r \in Reqs : \A i \in DOMAIN net[r] :
    (net[r][i].call \in {"search", "fetch"} /\ net[r][i].status # Ok) =>
       /\ i = Len(net[r])
       /\ Returned(r)
       /\ idx[r] = net[r][i].msg
       /\ ~result[r].success
       /\ result[r].error = Surfaced(target, net[r][i].status)

\* the fetch of the first message fails while the second message has a code
C20_Witness ==
  \E r \in Reqs :
    /\ Returned(r)
    /\ Len(msgs[r]) >= 2 /\ msgs[r][1] = None /\ msgs[r][2] # None
    /\ LastCall(r) = [call |-> "fetch", msg |-> 1, status |-> "500"]
    /\ Fetched(r) = << 1 >>
    /\ result[r] = Failure(<< "Gmail API error:", "500" >>)


\* ------------------------------------------------- two requests in flight
\* Request 2 was issued while request 1 was still in flight; both runs of
\* fetchOTPForDomain have returned and neither processOTPRequest has gone
\* past it yet.  From here the two continuations interleave freely.
SupersedeInit ==
  /\ PopupClosed
  /\ NoText
  /\ NoPage
  /\ NoToken
  /\ NoAux
  /\ target = "firefox"
  /\ pc = [r \in Reqs |-> "deliver"]
  /\ uiAlive = [r \in Reqs |-> r = 2]
  /\ req = [r \in Reqs |-> SendFetchOTP(r, 1, FALSE)]
  /\ injReq = [r \in Reqs |-> FALSE]
  /\ reply = [r \in Reqs |-> HandleFetchOTPReply(target)]
  /\ msgs = [r \in Reqs |-> << >>]
  /\ idx = [r \in Reqs |-> 0]
  /\ net = [r \in Reqs |-> << >>]
  /\ thrown = [r \in Reqs |-> << >>]
  /\ result \in { res \in [Reqs -> { Success(c) : c \in Codes } \cup { Failure(NoOTPFound) }] :
                    res[1] # res[2] }
  /\ branch = [r \in Reqs |-> None]
  /\ portSeen = [r \in Reqs |-> NoPort]
  /\ posted = [r \in Reqs |-> << >>]
  /\ log = [r \in Reqs |-> << >>]
  /\ clip = [r \in Reqs |-> None]
  /\ clipTab = [r \in Reqs |-> NoTab]
  /\ outcome = [r \in Reqs |-> NoOutcome]
  /\ writes = [r \in Reqs |-> 0]
  /\ badgeSet = [r \in Reqs |-> FALSE]
  /\ activePorts = [t \in Tabs |-> NoPort]
  /\ openPorts = {}
  /\ closing = {}
  /\ portTab = [p \in Ports |-> NoTab]
  /\ nextPort = 1
  /\ pendingConn = [t \in Tabs |-> 0]
  /\ stored = NoOutcome
  /\ badge = NoBadge
  /\ clipboard = None
  /\ tokenCached = TRUE

SupersedeNext ==
  \/ \E r \in Reqs : Deliver(r)
  \/ \E r \in Reqs : ClipQuery(r)
  \/ \E r \in Reqs : ClipInject(r)
  \/ \E r \in Reqs : StoreResult(r)
  \/ \E r \in Reqs : SetBadgeText(r)
  \/ \E r \in Reqs : SetBadgeColor(r)
  \/ \E r \in Reqs : SetBadgeTitle(r)
  \/ \E r \in Reqs : StoreFallback(r)

SupersedeSpec == SupersedeInit /\ [][SupersedeNext]_vars

\* C13: of two requests in flight together, once both have completed (and
\* each has written its record) the latest_otp_result slot holds the outcome
\* of request 2, the one issued later, whichever completed first.
C13_LaterRequestWins ==
  (Done(1) /\ Done(2) /\ writes[1] >= 1 /\ writes[2] >= 1) => stored = outcome[2]


\* ------------------------------------------- the popup, opened again later
\* Date.now() moves on between any two steps.  The clock is followed through
\* the instants around the ends of record lifetimes: k*TTL - 1 and k*TTL.
Tick ==
  /\ now < MaxEpochs * TTL
  /\ now' = IF now % TTL = 0 THEN now + TTL - 1 ELSE now + 1
  /\ UNCHANGED << target, auxVars, txtVars, domVars, tokVars, pc, uiAlive, reqVars, reply, orchVars, branch, portSeen,
                  posted, log, clipVars, recVars, portVars, tokenCached,
                  storedAt, popupPc, view, viewAge, shows, opens >>

\* the user opens the popup: init() runs up to checkForRecentResults
OpenPopup ==
  /\ target = "firefox"
  /\ popupPc = "closed"
  /\ opens < MaxOpens
  /\ opens' = opens + 1
  /\ popupPc' = "get"
  /\ UNCHANGED << target, auxVars, txtVars, domVars, tokVars, pc, uiAlive, reqVars, reply, orchVars, branch, portSeen,
                  posted, log, clipVars, recVars, portVars, tokenCached,
                  now, storedAt, view, viewAge, shows >>

\* latestResult && Date.now() - latestResult.timestamp < 60000
IsRecent(rec, at, t) == rec # NoOutcome /\ t - at < TTL

\* await browser.storage.local.get('latest_otp_result'), the age test and
\* showStatus
CheckGet ==
  /\ popupPc = "get"
  /\ \/ /\ IsRecent(stored, storedAt, now)
        /\ view' = stored
        /\ viewAge' = now - storedAt
        /\ shows' = shows + 1
        /\ popupPc' = "remove"
     \/ /\ ~IsRecent(stored, storedAt, now)
        /\ popupPc' = "ready"
        /\ UNCHANGED << view, viewAge, shows >>
     \/ \* storage.local.get rejects: logged in the catch block
        /\ popupPc' = "ready"
        /\ UNCHANGED << view, viewAge, shows >>
  /\ UNCHANGED << target, auxVars, txtVars, domVars, tokVars, pc, uiAlive, reqVars, reply, orchVars, branch, portSeen,
                  posted, log, clipVars, recVars, portVars, tokenCached,
                  now, storedAt, opens >>

\* await browser.storage.local.remove('latest_otp_result')
CheckRemove ==
  /\ popupPc = "remove"
  /\ \/ /\ stored' = NoOutcome
        /\ storedAt' = 0
        /\ popupPc' = "clearText"
     \/ \* the removal rejects: the catch block logs it, clearBadge is skipped
        /\ popupPc' = "ready"
        /\ UNCHANGED << stored, storedAt >>
  /\ UNCHANGED << target, auxVars, txtVars, domVars, tokVars, pc, uiAlive, reqVars, reply, orchVars, branch, portSeen,
                  posted, log, clipVars, outcome, writes, badgeSet, badge, portVars,
                  tokenCached, now, view, viewAge, shows, opens >>

DefaultTitle == << "Grab OTP from Gmail" >>

\* clearBadge: await browser.browserAction.setBadgeText({ text: '' })
ClearBadgeText ==
  /\ popupPc = "clearText"
  /\ \/ /\ badge' = [badge EXCEPT !.text = ""]
        /\ popupPc' = "clearTitle"
     \/ \* rejected: clearBadge's own catch block logs it
        /\ popupPc' = "ready"
        /\ UNCHANGED badge
  /\ UNCHANGED << target, auxVars, txtVars, domVars, tokVars, pc, uiAlive, reqVars, reply, orchVars, branch, portSeen,
                  posted, log, clipVars, outcome, writes, badgeSet, stored, portVars,
                  tokenCached, now, storedAt, view, viewAge, shows, opens >>

\* clearBadge: await browser.browserAction.setTitle({ title: ... })
ClearBadgeTitle ==
  /\ popupPc = "clearTitle"
  /\ \/ badge' = [badge EXCEPT !.title = DefaultTitle]
     \/ UNCHANGED badge
  /\ popupPc' = "ready"
  /\ UNCHANGED << target, auxVars, txtVars, domVars, tokVars, pc, uiAlive, reqVars, reply, orchVars, branch, portSeen,
                  posted, log, clipVars, outcome, writes, badgeSet, stored, portVars,
                  tokenCached, now, storedAt, view, viewAge, shows, opens >>

\* the popup is closed once its check is over
DismissPopup ==
  /\ popupPc = "ready"
  /\ popupPc' = "closed"
  /\ view' = NoOutcome
  /\ viewAge' = 0
  /\ UNCHANGED << target, auxVars, txtVars, domVars, tokVars, pc, uiAlive, reqVars, reply, orchVars, branch, portSeen,
                  posted, log, clipVars, recVars, portVars, tokenCached,
                  now, storedAt, shows, opens >>

\* A Firefox request has run to its end and showPopupWithResult has stored
\* its outcome and set the badge; the popup that issued it is closed.
PopupInit ==
  /\ target = "firefox"
  /\ \E res \in { Success(c) : c \in Codes } \cup { Failure(NoOTPFound) } :
       LET rq == SendFetchOTP(1, 1, FALSE)
           b  == DeliveryBranch(res, rq, [t \in Tabs |-> NoPort])
           o  == IF res.success THEN SuccessOutcome(res, rq, b)
                                ELSE FailureOutcome(res, rq)
       IN  /\ result = [r \in Reqs |-> IF r \in Solo THEN res ELSE NoResult]
           /\ req = [r \in Reqs |-> IF r \in Solo THEN rq ELSE NoReq]
           /\ branch = [r \in Reqs |-> IF r \in Solo THEN b ELSE None]
           /\ outcome = [r \in Reqs |-> IF r \in Solo THEN o ELSE NoOutcome]
           /\ stored = o
           /\ badge = [text |-> Glyph(o.success), color |-> BadgeColor(o.success),
                       title |-> BadgeTitle(o)]
           /\ clip = [r \in Reqs |-> IF r \in Solo /\ res.success THEN "written" ELSE None]
           /\ clipTab = [r \in Reqs |-> IF r \in Solo /\ res.success THEN 1 ELSE NoTab]
           /\ clipboard = IF res.success THEN res.otp ELSE None
           /\ log = [r \in Reqs |->
                      IF r \notin Solo THEN << >>
                      ELSE (IF res.success THEN << "copyToClipboard" >> ELSE << >>)
                           \o << "showPopupWithResult", "storage.set", "setBadgeText",
                                 "setBadgeBackgroundColor", "setTitle" >>]
  /\ pc = [r \in Reqs |-> IF r \in Solo THEN "done" ELSE "idle"]
  /\ uiAlive = [r \in Reqs |-> r \notin Solo]
  /\ injReq = [r \in Reqs |-> FALSE]
  /\ reply = [r \in Reqs |-> IF r \in Solo THEN HandleFetchOTPReply(target) ELSE None]
  /\ msgs = [r \in Reqs |-> << >>]
  /\ idx = [r \in Reqs |-> 0]
  /\ net = [r \in Reqs |-> << >>]
  /\ thrown = [r \in Reqs |-> << >>]
  /\ portSeen = [r \in Reqs |-> NoPort]
  /\ posted = [r \in Reqs |-> << >>]
  /\ writes = [r \in Reqs |-> IF r \in Solo THEN 1 ELSE 0]
  /\ badgeSet = [r \in Reqs |-> r \in Solo]
  /\ activePorts = [t \in Tabs |-> NoPort]
  /\ openPorts = {}
  /\ closing = {}
  /\ portTab = [p \in Ports |-> NoTab]
  /\ nextPort = 1
  /\ pendingConn = [t \in Tabs |-> 0]
  /\ tokenCached = TRUE
  /\ PopupClosed
  /\ NoText
  /\ NoPage
  /\ NoToken
  /\ NoAux

PopupNext ==
  \/ Tick
  \/ OpenPopup
  \/ CheckGet
  \/ CheckRemove
  \/ ClearBadgeText
  \/ ClearBadgeTitle
  \/ DismissPopup

PopupSpec == PopupInit /\ [][PopupNext]_vars

\* C14: the popup displays a stored outcome only if it is less than TTL old
\* (so never one aged 60 s or more); when its check is over after displaying
\* one, the record is removed and the badge cleared; and no stored outcome
\* is displayed on more than one popup open.
C14_ShownOnce ==
  /\ view # NoOutcome => viewAge < TTL
  /\ shows <= 1
  /\ (popupPc = "ready" /\ view # NoOutcome) =>
        /\ stored = NoOutcome
        /\ badge.text = ""
        /\ badge.title = DefaultTitle

\* C15: once the popup has been opened after an outcome was stored and its
\* check is over, no latest_otp_result record remains, whatever its age.
C15_NoRecordRemains ==
  popupPc = "ready" => stored = NoOutcome


\* the search of the run was answered, with an empty page
EmptyPage(r) ==
  /\ net[r] # << >>
  /\ LastCall(r) = [call |-> "search", msg |-> 0, status |-> Ok]
  /\ msgs[r] = << >>

\* C21: when the search returns zero messages the run is over at once: it
\* returns the failure 'No recent emails found for <domain>' with the
\* domain the request asked for, and no body fetch is made.
C21_NoEmailsFound ==
  \A r \in Reqs :
    /\ (\E i \in DOMAIN net[r] : net[r][i].call = "search" /\ net[r][i].status = Ok)
          /\ msgs[r] = << >>
       => /\ Returned(r)
          /\ result[r] = Failure(<< "No recent emails found for", req[r].domain >>)
          /\ Fetched(r) = << >>
    /\ Calls(r, "fetch") # << >> => msgs[r] # << >>

C21_Witness ==
  \E r \in Reqs :
    /\ Returned(r)
    /\ EmptyPage(r)
    /\ req[r].domain = "example.com"
    /\ result[r] = Failure(<< "No recent emails found for", "example.com" >>)


\* C22: in each build, when credential acquisition yields no token (the
\* identity flow is cancelled, reports an error, throws or returns no access
\* token) the run returns 'Gmail authentication required' at once, with no
\* search and no body fetch.
C22_NoTokenFailsFast ==
  \A r \in Reqs :
    (\E i \in DOMAIN net[r] : net[r][i].call = "auth" /\ net[r][i].status # Ok) =>
       /\ Returned(r)
       /\ result[r] = Failure(<< "Gmail authentication required" >>)
       /\ Calls(r, "search") = << >>
       /\ Calls(r, "fetch") = << >>

\* ---------------------------------------------------------------------------
\* extractOTP: the text of a message is a sequence of characters; the seven
\* regular expressions of OTP_PATTERNS are evaluated character by character.
\* ---------------------------------------------------------------------------

MaxRun == 9

Digits == { "0", "1", "2", "3", "4", "5", "6", "7", "8", "9" }
Letters == { "a", "c", "d", "e", "f", "i", "n", "o", "p", "r", "t", "u", "v", "x", "y",
             "I", "N", "P" }

\* \d
IsDigit(c) == c \in Digits

\* \w
IsWord(c) == c \in Digits \cup Letters \cup { "_" }

\* [:\s]
Separators == { ":", " " }

\* the i flag: letters compare without case
Lower(c) ==
  CASE c = "C" -> "c"
    [] c = "I" -> "i"
    [] c = "N" -> "n"
    [] c = "O" -> "o"
    [] c = "P" -> "p"
    [] c = "T" -> "t"
    [] OTHER -> c

\* a word boundary that every position satisfies
Boundary_Always(t, i) == TRUE

\* \b between t[i] and t[i+1] (i = 0: start of the text, i = Len(t): its end)
Boundary(t, i) ==
  LET WordAt(k) == k \in 1..Len(t) /\ IsWord(t[k])
  IN WordAt(i) # WordAt(i + 1)

\* the index after the longest run of characters of class C starting at s
RunEnd(t, s, C) ==
  LET stops == { k \in s..Len(t) : t[k] \notin C }
  IN IF stops = {} THEN Len(t) + 1
     ELSE CHOOSE k \in stops : \A j \in stops : k <= j

Bare(n) == [digits |-> n, phrase |-> << >>]
Phrase(w) == [digits |-> 0, phrase |-> w]

VerificationCode == << "v", "e", "r", "i", "f", "i", "c", "a", "t", "i", "o", "n", " ",
                       "c", "o", "d", "e" >>
YourCode == << "y", "o", "u", "r", " ", "c", "o", "d", "e" >>
Otp == << "o", "t", "p" >>
Pin == << "p", "i", "n" >>

\* the patterns in an order that tries the phrases before the bare runs
OTP_PATTERNS_Mutant ==
  << Phrase(VerificationCode), Phrase(YourCode), Phrase(Otp), Phrase(Pin),
     Bare(6), Bare(4), Bare(8) >>

OTP_PATTERNS ==
  << Bare(6), Bare(4), Bare(8),
     Phrase(VerificationCode), Phrase(YourCode), Phrase(Otp), Phrase(Pin) >>

\* the last index of the match of pattern pat that starts at p, 0 if none.
\* /\b(\d{n})\b/ : a boundary, exactly n digits, a boundary.
\* /phrase[:\s]*(\d+)/i : the phrase, the longest run of separators, the
\* longest run of digits, which must not be empty (neither run can give a
\* character back to the other: the classes are disjoint).
MatchEnd(pat, t, p) ==
  IF pat.digits > 0
  THEN LET e == p + pat.digits - 1
       IN IF /\ e <= Len(t)
             /\ \A k \in p..e : IsDigit(t[k])
             /\ Boundary(t, p - 1)
             /\ Boundary(t, e)
          THEN e ELSE 0
  ELSE LET w == pat.phrase
           s == p + Len(w)
       IN IF /\ s - 1 <= Len(t)
             /\ \A k \in 1..Len(w) : Lower(t[p + k - 1]) = w[k]
          THEN LET d == RunEnd(t, s, Separators)
                   e == RunEnd(t, d, Digits) - 1
               IN IF e >= d THEN e ELSE 0
          ELSE 0

\* textContent.match(pattern) with the g flag: the matched substrings, leftmost
\* first, each search resuming after the previous match (<< >>: null)
RECURSIVE MatchesFrom(_, _, _)
MatchesFrom(pat, t, p) ==
  IF p > Len(t) THEN << >>
  ELSE LET e == MatchEnd(pat, t, p)
       IN IF e = 0 THEN MatchesFrom(pat, t, p + 1)
          ELSE << SubSeq(t, p, e) >> \o MatchesFrom(pat, t, e + 1)

\* match.replace(/\D/g, '')
StripNonDigits(m) == SelectSeq(m, IsDigit)

\* a length test that accepts every code
ValidLength_Any(c) == TRUE

\* code.length >= 4 && code.length <= 8
ValidLength(c) == Len(c) >= 4 /\ Len(c) <= 8

\* for (const match of matches): the first match whose digits pass the test
RECURSIVE FirstAccepted(_)
FirstAccepted(ms) ==
  IF ms = << >> THEN NoCode
  ELSE LET c == StripNonDigits(Head(ms))
       IN IF ValidLength(c) THEN c ELSE FirstAccepted(Tail(ms))

\* for (const pattern of OTP_PATTERNS), from pattern i on
RECURSIVE TryPatterns(_, _)
TryPatterns(t, i) ==
  IF i > Len(OTP_PATTERNS) THEN NoCode
  ELSE LET c == FirstAccepted(MatchesFrom(OTP_PATTERNS[i], t, 1))
       IN IF c # NoCode THEN c ELSE TryPatterns(t, i + 1)

extractOTP(t) == TryPatterns(t, 1)


\* ------------------------------------------------------ texts to extract from
\* A text is two clauses joined by one character; a clause is an optional
\* head (a letter or an OTP phrase), an optional separator and an optional
\* run of digits. The run of the first clause counts up from 1, that of the
\* second from 5, so that the two runs of a text differ.
DigitChar(d) == << "0", "1", "2", "3", "4", "5", "6", "7", "8", "9" >>[(d % 10) + 1]
DigitRun(n, b) == [k \in 1..n |-> DigitChar(b + k - 1)]
Runs(b) == { << >> } \cup { DigitRun(n, b) : n \in 3..MaxRun }
Heads == { << >>, << "x" >>, Otp, << "P", "I", "N" >>, YourCode, VerificationCode }
Seps == { << >>, << ":" >>, << ":", " " >> }
Joins == { << " " >>, << "x" >>, << "-" >> }
Clauses(b) == { h \o s \o d : h \in Heads, s \in Seps, d \in Runs(b) }
Texts == { c1 \o j \o c2 : c1 \in Clauses(1), j \in Joins, c2 \in Clauses(5) }

\* getMessageTextContent has built the text of one message
ExtractInit ==
  /\ PopupClosed
  /\ NoPage
  /\ NoToken
  /\ NoAux
  /\ BackgroundIdle
  /\ target = "firefox"
  /\ textContent \in Texts
  /\ otpCode = NoCode
  /\ xpc = "ready"

\* extractOTP(message), from the text on
Extract ==
  /\ xpc = "ready"
  /\ otpCode' = extractOTP(textContent)
  /\ xpc' = "done"
  /\ UNCHANGED << target, auxVars, textContent, domVars, tokVars, popVars, pc, uiAlive, reqVars, reply, orchVars,
                  branch, portSeen, posted, log, clipVars, recVars, portVars,
                  tokenCached >>

ExtractNext == Extract

ExtractSpec == ExtractInit /\ [][ExtractNext]_vars

Extracted == xpc = "done"


\* C23: whatever the text, extractOTP returns either nothing or a string of
\* decimal digits whose length is at least 4 and at most 8.
C23_DigitsOfLength4To8 ==
  Extracted =>
    \/ otpCode = NoCode
    \/ /\ Len(otpCode) \in 4..8
       /\ \A k \in 1..Len(otpCode) : otpCode[k] \in Digits

\* 'PIN: ' before a run of 9 digits, then a run of 7 after 'otp:': the 9 digits
\* are refused and the 7 are returned
C23_Witness ==
  /\ Extracted
  /\ textContent = << "P", "I", "N", ":", " " >> \o DigitRun(9, 1) \o << " " >>
                     \o Otp \o << ":" >> \o DigitRun(7, 5)
  /\ otpCode = DigitRun(7, 5)


\* the maximal runs of digits of a text, as pairs << first, last >>
MaximalRuns(t) ==
  LET starts == { a \in 1..Len(t) : t[a] \in Digits /\ (a = 1 \/ t[a - 1] \notin Digits) }
      LastOf(a) == CHOOSE b \in a..Len(t) :
                     /\ \A k \in a..b : t[k] \in Digits
                     /\ b = Len(t) \/ t[b + 1] \notin Digits
  IN { << a, LastOf(a) >> : a \in starts }

\* a run with no letter, digit or underscore on either side
Standalone(t, ab) ==
  /\ ab[1] = 1 \/ t[ab[1] - 1] \in { " ", ":", "-" }
  /\ ab[2] = Len(t) \/ t[ab[2] + 1] \in { " ", ":", "-" }

\* phrase w, in any case, occurs in t and ends before position a
OccursBefore(w, t, a) ==
  \E p \in 1..Len(t) :
    /\ p + Len(w) - 1 < a
    /\ \A k \in 1..Len(w) : Lower(t[p + k - 1]) = w[k]

PhraseBefore(t, a) == \E w \in { VerificationCode, YourCode, Otp, Pin } : OccursBefore(w, t, a)

\* C24: a text whose only run of digits is a standalone run of n digits,
\* n in 4..8, with no OTP phrase before it, yields exactly that run.
C24_LoneRunReturned ==
  Extracted =>
    \A ab \in MaximalRuns(textContent) :
      /\ MaximalRuns(textContent) = { ab }
      /\ ab[2] - ab[1] + 1 \in 4..8
      /\ Standalone(textContent, ab)
      /\ ~ PhraseBefore(textContent, ab[1])
      => otpCode = SubSeq(textContent, ab[1], ab[2])


\* C25: a text none of whose maximal runs of digits has a length between 4
\* and 8 yields nothing, also when such a run follows a phrase or touches a
\* letter.
C25_NoRunOfLength4To8 ==
  Extracted /\ (\A ab \in MaximalRuns(textContent) : ab[2] - ab[1] + 1 \notin 4..8)
    => otpCode = NoCode

\* 'otp:' before 3 digits glued to a letter, then 'PIN: ' before 9 digits
C25_Witness ==
  /\ Extracted
  /\ textContent = Otp \o << ":" >> \o DigitRun(3, 1) \o << "x" >>
                     \o << "P", "I", "N", ":", " " >> \o DigitRun(9, 5)
  /\ otpCode = NoCode


\* The reference: the candidates of pattern i in text t, as pairs
\* << position, digits >>. Patterns 1..3 are the standalone runs of exactly 6,
\* 4 and 8 digits; patterns 4..7 are the runs of 4 to 8 digits that follow
\* 'verification code', 'your code', 'otp' and 'pin' after any separators.
RefCandidates(i, t) ==
  IF i <= 3
  THEN { << ab[1], SubSeq(t, ab[1], ab[2]) >> :
           ab \in { r \in MaximalRuns(t) : /\ r[2] - r[1] + 1 = << 6, 4, 8 >>[i]
                                           /\ Standalone(t, r) } }
  ELSE LET w == << VerificationCode, YourCode, Otp, Pin >>[i - 3]
       IN { << pr[1], SubSeq(t, pr[2][1], pr[2][2]) >> :
              pr \in { q \in (1..Len(t)) \X MaximalRuns(t) :
                         /\ q[1] + Len(w) <= q[2][1]
                         /\ \A k \in 1..Len(w) : Lower(t[q[1] + k - 1]) = w[k]
                         /\ \A k \in (q[1] + Len(w))..(q[2][1] - 1) : t[k] \in { ":", " " }
                         /\ q[2][2] - q[2][1] + 1 \in 4..8 } }

Reference(t) ==
  LET live == { i \in 1..7 : RefCandidates(i, t) # {} }
  IN IF live = {} THEN NoCode
     ELSE LET i == CHOOSE k \in live : \A j \in live : k <= j
              c == CHOOSE x \in RefCandidates(i, t) :
                     \A y \in RefCandidates(i, t) : x[1] <= y[1]
          IN c[2]

\* C26: extractOTP returns what the reference returns: of the first pattern,
\* in the order bare 6, bare 4, bare 8, 'verification code', 'your code',
\* 'otp', 'pin', that has a match with 4 to 8 digits, the earliest such match;
\* in particular a standalone run of 6 digits anywhere in the text is
\* returned whatever precedes it.
C26_MatchesReference ==
  Extracted =>
    /\ otpCode = Reference(textContent)
    /\ RefCandidates(1, textContent) # {} => \E c \in RefCandidates(1, textContent) : otpCode = c[2]

\* 'otp' glued to 5 digits, then a standalone run of 6 digits: the later run wins
C26_Witness ==
  /\ Extracted
  /\ textContent = Otp \o DigitRun(5, 1) \o << " " >> \o DigitRun(6, 5)
  /\ otpCode = DigitRun(6, 5)

\* 'otp:' before 3 digits, then 'PIN:' before 5: the refused otp match does
\* not end the search
C26_RejectedThenLater ==
  /\ Extracted
  /\ textContent = Otp \o << ":" >> \o DigitRun(3, 1) \o << " " >>
                     \o << "P", "I", "N", ":" >> \o DigitRun(5, 5)
  /\ otpCode = DigitRun(5, 5)


\* ---------------------------------------------------------------------------
\* OTPAutoFiller (content/otp-autofill.ts). An input element is a record of
\* the attributes the code reads; every input of a page has type="text", no
\* inputmode and no enclosing form. Attribute values are sequences of
\* characters.
\* ---------------------------------------------------------------------------

MaxSingles == 5

\* String.prototype.toLowerCase
ToLowerCase(s) == [k \in DOMAIN s |-> Lower(s[k])]

\* a substring test that never finds the word
Includes_Never(s, w) == FALSE

\* String.prototype.includes
Includes(s, w) == \E p \in 1..(Len(s) - Len(w) + 1) : SubSeq(s, p, p + Len(w) - 1) = w

\* [a, b, ...].join(' ')
RECURSIVE Join(_)
Join(ss) ==
  IF ss = << >> THEN << >>
  ELSE IF Len(ss) = 1 THEN ss[1]
  ELSE ss[1] \o << " " >> \o Join(Tail(ss))

Email == << "e", "m", "a", "i", "l" >>
Password == << "p", "a", "s", "s", "w", "o", "r", "d" >>
Username == << "u", "s", "e", "r", "n", "a", "m", "e" >>
Phone == << "p", "h", "o", "n", "e" >>
Excluded == { Email, Password, Username, Phone }

\* element.disabled || element.readOnly || element.style.display === 'none',
\* then the words that mark an input as meant for something else
isValidOTPInput(el) ==
  IF el.disabled THEN FALSE
  ELSE LET attributes == Join(<< ToLowerCase(el.name), ToLowerCase(el.id),
                                 ToLowerCase(el.className), ToLowerCase(el.placeholder),
                                 ToLowerCase(el.testid) >>)
       IN ~ \E w \in Excluded : Includes(attributes, w)

\* the maxLength property: the maxlength attribute parsed as a number, -1 if absent
MaxLengthOf(el) ==
  CASE el.maxlength = "1" -> 1
    [] el.maxlength = "01" -> 1
    [] el.maxlength = "3" -> 3
    [] el.maxlength = "4" -> 4
    [] el.maxlength = "6" -> 6
    [] el.maxlength = "8" -> 8
    [] el.maxlength = "9" -> 9
    [] OTHER -> 0 - 1

\* the entries of OTP_SELECTORS that an input of type text without one of the
\* listed classes can match, in their order there (of the entries for
\* maxlength 4 to 8 the one for 6)
OTP_SELECTORS ==
  << "autocomplete=one-time-code", "inputmode=numeric maxlength=6",
     "text maxlength=1", "text maxlength=6" >>

Selects(selector, el) ==
  CASE selector = "autocomplete=one-time-code" -> el.autocomplete = "one-time-code"
    [] selector = "inputmode=numeric maxlength=6" ->
         el.inputMode = "numeric" /\ el.maxlength = "6"
    [] selector = "text maxlength=1" -> el.maxlength = "1"
    [] selector = "text maxlength=6" -> el.maxlength = "6"

OTP_KEYWORDS ==
  << Otp,
     << "v", "e", "r", "i", "f", "i", "c", "a", "t", "i", "o", "n" >>,
     << "v", "e", "r", "i", "f", "y" >>,
     << "c", "o", "d", "e" >>,
     << "t", "o", "k", "e", "n" >>,
     Pin,
     << "a", "u", "t", "h" >>,
     << "2", "f", "a" >>,
     << "t", "w", "o", "-", "f", "a", "c", "t", "o", "r" >>,
     << "s", "m", "s" >>,
     << "s", "e", "c", "u", "r", "i", "t", "y" >>,
     << "c", "o", "n", "f", "i", "r", "m" >>,
     << "o", "n", "e", "-", "t", "i", "m", "e" >> >>

\* element.closest('form') found nothing
NoForm == [present |-> FALSE, textContent |-> << >>]

\* a score that leaves out the bonus for the form's text
calculateConfidence_NoFormBonus(el, sel) ==
  LET attributes == Join(<< ToLowerCase(el.name), ToLowerCase(el.id),
                            ToLowerCase(el.className), ToLowerCase(el.placeholder) >>)
      hits == { k \in DOMAIN OTP_KEYWORDS : Includes(attributes, OTP_KEYWORDS[k]) }
  IN (IF el.autocomplete = "one-time-code" THEN 100 ELSE 0)
     + (IF el.inputMode = "numeric" THEN 50 ELSE 0)
     + (IF MaxLengthOf(el) >= 4 /\ MaxLengthOf(el) <= 8 THEN 30 ELSE 0)
     + (IF MaxLengthOf(el) = 1 THEN 20 ELSE 0)
     + 10 * Cardinality(hits)

\* calculateConfidence(element, selector); the selector is not read
calculateConfidence(el, sel) ==
  LET maxLength == MaxLengthOf(el)
      attributes == Join(<< ToLowerCase(el.name), ToLowerCase(el.id),
                            ToLowerCase(el.className), ToLowerCase(el.placeholder) >>)
      hits == { k \in DOMAIN OTP_KEYWORDS : Includes(attributes, OTP_KEYWORDS[k]) }
      formText == ToLowerCase(el.form.textContent)
      formHits == IF el.form.present
                  THEN { k \in DOMAIN OTP_KEYWORDS : Includes(formText, OTP_KEYWORDS[k]) }
                  ELSE { }
  IN (IF el.autocomplete = "one-time-code" THEN 100 ELSE 0)
     + (IF el.inputMode = "numeric" THEN 50 ELSE 0)
     + (IF maxLength >= 4 /\ maxLength <= 8 THEN 30 ELSE 0)
     + (IF maxLength = 1 THEN 20 ELSE 0)
     + 10 * Cardinality(hits)
     + 5 * Cardinality(formHits)

determineInputType(el) == IF MaxLengthOf(el) = 1 THEN "single" ELSE "multi"

\* Array.prototype.sort is stable: element k comes after the elements that
\* the comparison puts before it and after the earlier ones it ties with
\* (precedes: the pairs << a, b >> that the comparison puts a before b)
Sorted(s, precedes) ==
  LET Rank(k) == Cardinality({ j \in DOMAIN s :
                     \/ << s[j], s[k] >> \in precedes
                     \/ j < k /\ << s[k], s[j] >> \notin precedes })
  IN [i \in DOMAIN s |-> s[CHOOSE k \in DOMAIN s : Rank(k) = i - 1]]

\* the numbers of a set in increasing order
RECURSIVE Ascending(_)
Ascending(S) ==
  IF S = {} THEN << >>
  ELSE LET m == CHOOSE x \in S : \A y \in S : x <= y
       IN << m >> \o Ascending(S \ {m})

\* findOTPInputs: for each selector, for each element it selects in document
\* order, a candidate if the element is valid; then removeDuplicates, which
\* keeps the first candidate of an element
RECURSIVE CandidatesFrom(_, _)
CandidatesFrom(pg, i) ==
  IF i > Len(OTP_SELECTORS) THEN << >>
  ELSE Ascending({ e \in DOMAIN pg : /\ Selects(OTP_SELECTORS[i], pg[e])
                                      /\ isValidOTPInput(pg[e]) })
         \o CandidatesFrom(pg, i + 1)

removeDuplicates(cs) ==
  LET keep == Ascending({ k \in DOMAIN cs : \A j \in 1..(k - 1) : cs[j] # cs[k] })
  IN [k \in DOMAIN keep |-> cs[keep[k]]]

findOTPInputs(pg) == removeDuplicates(CandidatesFrom(pg, 1))


\* firstElement.closest('form, div, section') || document: the inputs under
\* the nearest container of input e; the inner container lies inside the
\* outer one, which holds every input of the page
ContainerOf(pg, e) ==
  IF pg[e].inner THEN { x \in DOMAIN pg : pg[x].inner } ELSE DOMAIN pg

\* a comparison that keeps document order
RectPrecedes_Never(pg, a, b) == FALSE

\* rectA.top - rectB.top || rectA.left - rectB.left is negative
RectPrecedes(pg, a, b) ==
  \/ pg[a].top < pg[b].top
  \/ pg[a].top = pg[b].top /\ pg[a].left < pg[b].left

\* the valid inputs with maxlength="1" of the container, in visual order
ValidInputs(pg, first) ==
  LET found == { x \in ContainerOf(pg, first) : /\ pg[x].maxlength = "1"
                                                 /\ isValidOTPInput(pg[x]) }
  IN Sorted(Ascending(found),
            { ab \in found \X found : RectPrecedes(pg, ab[1], ab[2]) })

\* fillSingleDigitInputs: its result and the values it leaves
fillSingleDigitInputs(pg, val, first, otp) ==
  LET validInputs == ValidInputs(pg, first)
  IN IF Len(validInputs) = 0 \/ Len(validInputs) > Len(otp)
     THEN [ok |-> FALSE, val |-> val]
     ELSE [ok |-> TRUE,
           val |-> [e \in DOMAIN val |->
                      IF \E i \in DOMAIN validInputs : validInputs[i] = e
                      THEN << otp[CHOOSE i \in DOMAIN validInputs : validInputs[i] = e] >>
                      ELSE val[e]]]

\* fillMultiDigitInput
fillMultiDigitInput(pg, val, el, otp) ==
  [ok |-> TRUE, val |-> [val EXCEPT ![el] = otp]]

tryFillInput(pg, val, el, otp) ==
  IF determineInputType(pg[el]) = "single"
  THEN fillSingleDigitInputs(pg, val, el, otp)
  ELSE fillMultiDigitInput(pg, val, el, otp)

\* the confidence of the candidate kept for an input: the one computed with
\* the first selector that matched it
ConfidenceOf(el) ==
  LET first == CHOOSE i \in DOMAIN OTP_SELECTORS :
                 /\ Selects(OTP_SELECTORS[i], el)
                 /\ \A j \in 1..(i - 1) : ~ Selects(OTP_SELECTORS[j], el)
  IN calculateConfidence(el, OTP_SELECTORS[first])

\* candidates.sort((a, b) => b.confidence - a.confidence)
ByConfidence(pg, cs) ==
  LET els == { cs[k] : k \in DOMAIN cs }
  IN Sorted(cs, { ab \in els \X els : ConfidenceOf(pg[ab[1]]) > ConfidenceOf(pg[ab[2]]) })

\* for (const candidate of candidates): the calls made, up to the first that
\* returns true
RECURSIVE TryCandidates(_, _, _, _)
TryCandidates(pg, val, cs, otp) ==
  IF cs = << >> THEN [ok |-> FALSE, val |-> val, tries |-> << >>]
  ELSE LET r == tryFillInput(pg, val, Head(cs), otp)
           t == [el |-> Head(cs), type |-> determineInputType(pg[Head(cs)]), ok |-> r.ok,
                 val |-> r.val]
       IN IF r.ok THEN [ok |-> TRUE, val |-> r.val, tries |-> << t >>]
          ELSE LET rest == TryCandidates(pg, r.val, Tail(cs), otp)
               IN [rest EXCEPT !.tries = << t >> \o rest.tries]

fillOTP(pg, val, otp) == TryCandidates(pg, val, ByConfidence(pg, findOTPInputs(pg)), otp)

\* ------------------------------------------------------------- pages to fill
\* A page is at most one other input followed by up to MaxSingles inputs with
\* maxlength="1", some of which are marked as not meant for a code in the
\* way chosen for the page.
Blank ==
  [name |-> << >>, id |-> << >>, className |-> << >>, placeholder |-> << >>,
   testid |-> << >>, disabled |-> FALSE, autocomplete |-> "", maxlength |-> "",
   inputMode |-> "", form |-> NoForm, type |-> "text",
   inner |-> FALSE, top |-> 0, left |-> 0]

Marks == { "name", "id", "class", "placeholder", "testid", "disabled" }

Mark(el, m) ==
  CASE m = "name" -> [el EXCEPT !.name = << "u", "s", "e", "r", "-" >> \o Email]
    [] m = "id" -> [el EXCEPT !.id = Password \o << "1" >>]
    [] m = "class" -> [el EXCEPT !.className = << "f", " " >> \o Username]
    [] m = "placeholder" -> [el EXCEPT !.placeholder = Phone \o << " ", "P", "I", "N" >>]
    [] m = "testid" -> [el EXCEPT !.testid = Email]
    [] m = "disabled" -> [el EXCEPT !.disabled = TRUE]

Layouts == { "ltr", "rtl", "rows" }
Nestings == { "none", "first", "last" }

\* the i-th of g single-character inputs
Single(i, g, marked, m, lay, nest) ==
  LET el == [Blank EXCEPT !.maxlength = "1",
                          !.inner = (nest = "first" /\ i = 1) \/ (nest = "last" /\ i = g),
                          !.top = IF lay = "rows" THEN i % 2 ELSE 0,
                          !.left = IF lay = "ltr" THEN i ELSE g - i]
  IN IF marked THEN Mark(el, m) ELSE el

Other(kind, i, m) ==
  LET el == [Blank EXCEPT !.top = 2, !.left = i]
  IN CASE kind = "multi" -> [el EXCEPT !.maxlength = "6"]
       [] kind = "marked" -> Mark([el EXCEPT !.maxlength = "6",
                                               !.autocomplete = "one-time-code"], m)
       [] kind = "loose" -> [el EXCEPT !.maxlength = "01",
                                        !.autocomplete = "one-time-code"]

OtherKinds == { "multi", "marked", "loose" }

Pages ==
  { [i \in 1..Len(os) |-> Other(os[i], i, m)]
      \o [i \in 1..Len(bs) |-> Single(i, Len(bs), bs[i], m, lay, nest)] :
    os \in UNION { [1..k -> OtherKinds] : k \in 0..1 },
    bs \in UNION { [1..g -> BOOLEAN] : g \in 0..MaxSingles },
    m \in Marks, lay \in Layouts, nest \in Nestings }

FillCode == << "4", "8", "2", "9" >>

\* the page's agent has called OTPAutoFiller.fillOTP with a code
FillInit ==
  /\ PopupClosed
  /\ NoToken
  /\ NoAux
  /\ BackgroundIdle
  /\ target = "firefox"
  /\ textContent = << >>
  /\ xpc = "idle"
  /\ otpCode = FillCode
  /\ page \in Pages
  /\ value = [e \in DOMAIN page |-> << >>]
  /\ fpc = "ready"
  /\ filled = FALSE
  /\ tries = << >>

\* OTPAutoFiller.fillOTP(otpCode), to its return
FillOTP ==
  /\ fpc = "ready"
  /\ \E r \in { fillOTP(page, value, otpCode) } :
        /\ value' = r.val
        /\ filled' = r.ok
        /\ tries' = r.tries
  /\ fpc' = "done"
  /\ UNCHANGED << target, auxVars, txtVars, page, tokVars, popVars, pc, uiAlive, reqVars, reply, orchVars,
                  branch, portSeen, posted, log, clipVars, recVars, portVars,
                  tokenCached >>

FillNext == FillOTP

FillSpec == FillInit /\ [][FillNext]_vars

Filled == fpc = "done"


\* word w occurs in attribute value s as it is written
Has(s, w) == \E i \in 1..Len(s) : \E j \in i..Len(s) : SubSeq(s, i, j) = w

\* the name, id, class or placeholder of the input contains one of the words
NotForCodes(el) ==
  \E s \in { el.name, el.id, el.className, el.placeholder } :
    \E w \in { Email, Password, Username, Phone } : Has(s, w)

\* C27: fillOTP writes nothing into an input whose name, id, class or
\* placeholder contains 'email', 'password', 'username' or 'phone', in
\* single-character and in whole-code mode, also when the input has
\* autocomplete="one-time-code".
C27_ExcludedInputsUntouched ==
  Filled => \A e \in DOMAIN page : NotForCodes(page[e]) => value[e] = << >>

\* a page with an excluded one-time-code input and an excluded
\* single-character input next to inputs that were filled
C27_Witness ==
  /\ Filled
  /\ filled
  /\ \E e \in DOMAIN page : /\ page[e].autocomplete = "one-time-code"
                            /\ NotForCodes(page[e])
  /\ \E e \in DOMAIN page : page[e].maxlength = "1" /\ NotForCodes(page[e])
  /\ \E e \in DOMAIN page : page[e].maxlength = "1" /\ value[e] # << >>


\* the valid inputs with maxlength="1" under the nearest container of input e
ValidSingles(e) ==
  { x \in ContainerOf(page, e) : page[x].maxlength = "1" /\ isValidOTPInput(page[x]) }

\* the place of input x among the inputs S in visual order: top, then left
VisualRank(x, S) ==
  1 + Cardinality({ y \in S : \/ page[y].top < page[x].top
                              \/ page[y].top = page[x].top /\ page[y].left < page[x].left })

Untouched == [e \in DOMAIN page |-> << >>]

\* C28: a single-character fill with k valid single-character inputs in the
\* nearest container and a code of n digits returns false and changes
\* nothing if k = 0 or k > n; if 1 <= k <= n it returns true and the i-th
\* input in visual order holds the i-th digit.
C28_SingleCharacterFill ==
  Filled =>
    \A c \in DOMAIN tries :
      tries[c].type = "single" =>
        LET S == ValidSingles(tries[c].el)
            k == Cardinality(S)
        IN IF k = 0 \/ k > Len(otpCode)
           THEN ~ tries[c].ok /\ tries[c].val = Untouched
           ELSE /\ tries[c].ok
                /\ \A x \in S : tries[c].val[x] = << otpCode[VisualRank(x, S)] >>

\* three valid inputs laid out right to left, filled in visual order
C28_Witness ==
  /\ Filled
  /\ filled
  /\ Len(page) = 3
  /\ \A e \in DOMAIN page : page[e].maxlength = "1" /\ page[e].left = 3 - e /\ page[e].top = 0
  /\ value = << << "2" >>, << "8" >>, << "4" >> >>

\* more valid inputs than digits: every call fails and nothing is written
C28_TooManyInputs ==
  /\ Filled
  /\ ~ filled
  /\ Len(tries) = 5
  /\ \A c \in DOMAIN tries : Cardinality(ValidSingles(tries[c].el)) = 5
  /\ value = Untouched

\* a one-time-code input whose maxlength is written "01": no input with
\* maxlength="1" is found
C28_NoInputs ==
  /\ Filled
  /\ ~ filled
  /\ Len(tries) = 1
  /\ ValidSingles(tries[1].el) = {}


\* --------------------------------------------- after a failed bridge injection
\* The user has clicked with auto-fill on and the injection of the bridge
\* agent has just failed: on Firefox the injectBridge handler is about to
\* reply success=false (or its message has thrown in the popup), on Chrome
\* chrome.scripting.executeScript has thrown in the popup and was caught.
\* Agents injected into the tab by an earlier popup session may still be
\* about to connect.
InjectFailedInit ==
  /\ PopupClosed
  /\ NoText
  /\ NoPage
  /\ NoToken
  /\ NoAux
  /\ target \in {"firefox", "chrome"}
  /\ pc = [r \in Reqs |-> IF r \notin Solo THEN "idle"
                          ELSE IF target = "firefox" THEN "p_replyFail" ELSE "sent"]
  /\ uiAlive = [r \in Reqs |-> TRUE]
  /\ req = [r \in Reqs |-> IF r \in Solo THEN SendFetchOTP(r, 1, TRUE) ELSE NoReq]
  /\ injReq = [r \in Reqs |-> r \in Solo]
  /\ reply = [r \in Reqs |-> None]
  /\ msgs = [r \in Reqs |-> << >>]
  /\ idx = [r \in Reqs |-> 0]
  /\ net = [r \in Reqs |-> << >>]
  /\ thrown = [r \in Reqs |-> << >>]
  /\ result = [r \in Reqs |-> NoResult]
  /\ branch = [r \in Reqs |-> None]
  /\ portSeen = [r \in Reqs |-> NoPort]
  /\ posted = [r \in Reqs |-> << >>]
  /\ log = [r \in Reqs |-> << >>]
  /\ clip = [r \in Reqs |-> None]
  /\ clipTab = [r \in Reqs |-> NoTab]
  /\ outcome = [r \in Reqs |-> NoOutcome]
  /\ writes = [r \in Reqs |-> 0]
  /\ badgeSet = [r \in Reqs |-> FALSE]
  /\ activePorts = [t \in Tabs |-> NoPort]
  /\ openPorts = {}
  /\ closing = {}
  /\ portTab = [p \in Ports |-> NoTab]
  /\ nextPort = 1
  /\ \E k \in 0..MaxFrames :
       pendingConn = [t \in Tabs |-> IF t = 1 /\ target = "firefox" THEN k ELSE 0]
  /\ stored = NoOutcome
  /\ badge = NoBadge
  /\ clipboard = None
  /\ tokenCached = FALSE

InjectFailedNext ==
  \/ \E r \in Solo : ClosePopup(r)
  \/ \E r \in Solo : PopupAfterInject(r)
  \/ \E t \in Tabs : BridgeConnect(t)
  \/ \E p \in Ports : PortDisconnected(p)
  \/ \E p \in Ports : BridgeDisconnect(p)
  \/ \E r \in Solo : HandleFetchOTP(r)
  \/ \E r \in Solo : GetCachedToken(r)
  \/ \E r \in Solo : AuthFlow(r)
  \/ \E r \in Solo : Search(r)
  \/ \E r \in Solo : FetchBody(r)
  \/ \E r \in Solo : FetchReturns(r)
  \/ \E r \in Solo : Deliver(r)
  \/ \E r \in Solo : ClipQuery(r)
  \/ \E r \in Solo : ClipInject(r)
  \/ \E r \in Solo : StoreResult(r)
  \/ \E r \in Solo : SetBadgeText(r)
  \/ \E r \in Solo : SetBadgeColor(r)
  \/ \E r \in Solo : SetBadgeTitle(r)
  \/ \E r \in Solo : StoreFallback(r)
  \/ \E r \in Solo : ChromeDeliver(r)
  \/ \E r \in Solo : ChromeInjectAndFill(r)
  \/ \E r \in Solo : ChromeRespond(r)
  \/ \E r \in Solo : ChromePopupResult(r)

InjectFailedSpec == InjectFailedInit /\ [][InjectFailedNext]_vars

\* C29: after a failed bridge injection the popup sends fetchOTP for the
\* same domain and tab, and when the retrieval finds a code the request ends
\* with the code delivered through the clipboard only (no fill-command, no
\* injected fill) and with a success outcome carrying the code.
C29_InjectionFailureFallsBack ==
  /\ \A r \in Solo : req[r] = SendFetchOTP(r, 1, TRUE)
  /\ \A r \in Solo :
       Done(r) /\ result[r].success /\ result[r].otp # None =>
         /\ posted[r] = << >>
         /\ ~ Called(r, "injectAndFillOTP")
         /\ Called(r, "copyToClipboard")
         /\ target = "firefox" => outcome[r].success /\ outcome[r].otp = result[r].otp

\* Firefox, a port of an earlier session registered for the tab: the code is
\* also posted to the bridge
C29_StalePortUsed ==
  \E r \in Solo : /\ target = "firefox" /\ Done(r) /\ result[r].success
                   /\ posted[r] # << >>


\* ---------------------------------------------------- the token cache in time
\* getCachedToken and cacheToken (Firefox) with the clock: oauth_expires is a
\* time in ms, lifetimes are the expires_in values of the auth response in s.
MaxGrants == 2

\* expires_in of the redirect URL in s; NoLifetime if the parameter is missing
Lifetimes == { 0, 299, 300, 301, 330 }
NoLifetime == 0

DefaultLifetime == 3600
EarlyExpiry == 300

\* expiresIn ? parseInt(expiresIn) : 3600
LifetimeOf(param) == IF param = NoLifetime THEN DefaultLifetime ELSE param

\* Date.now() + ((expiresInSeconds - 300) * 1000)
ExpiresAt(t, expiresInSeconds) == t + (expiresInSeconds - EarlyExpiry) * 1000

\* token && expires && Date.now() < expires
Fresh(has, expires, t) == has /\ expires # 0 /\ t < expires

\* getCachedToken, whole: storage.local.get, the test, and for a stored token
\* that fails it storage.local.remove; a rejected call is caught and null is
\* returned
ReadToken ==
  /\ tpc = "idle"
  /\ grants < MaxGrants
  /\ \/ \* storage.local.get rejects
        /\ lastRead' = [at |-> now, had |-> tokenCached, exp |-> oauthExpires,
                        got |-> FALSE, kept |-> tokenCached]
        /\ tpc' = "auth"
        /\ UNCHANGED << tokenCached, oauthExpires >>
     \/ /\ Fresh(tokenCached, oauthExpires, now)
        /\ lastRead' = [at |-> now, had |-> TRUE, exp |-> oauthExpires,
                        got |-> TRUE, kept |-> TRUE]
        /\ UNCHANGED << tpc, tokenCached, oauthExpires >>
     \/ /\ ~ Fresh(tokenCached, oauthExpires, now)
        /\ \/ /\ tokenCached' = FALSE
              /\ oauthExpires' = 0
           \/ \* storage.local.remove rejects
              /\ tokenCached
              /\ UNCHANGED << tokenCached, oauthExpires >>
        /\ lastRead' = [at |-> now, had |-> tokenCached, exp |-> oauthExpires,
                        got |-> FALSE, kept |-> tokenCached']
        /\ tpc' = "auth"
  /\ UNCHANGED << target, auxVars, txtVars, domVars, grant, grants, popVars, pc, uiAlive, reqVars, reply,
                  orchVars, branch, portSeen, posted, log, clipVars, recVars, portVars >>

\* getAccessToken past the cache: launchWebAuthFlow, then cacheToken when the
\* redirect carries a token; a rejected storage.local.set is caught
CacheToken ==
  /\ tpc = "auth"
  /\ tpc' = "idle"
  /\ grants' = grants + 1
  /\ \/ \* no token (flow cancelled or failed)
        UNCHANGED << tokenCached, oauthExpires, grant >>
     \/ \E param \in Lifetimes :
          \/ /\ tokenCached' = TRUE
             /\ oauthExpires' = ExpiresAt(now, LifetimeOf(param))
             /\ grant' = [at |-> now, life |-> LifetimeOf(param)]
          \/ UNCHANGED << tokenCached, oauthExpires, grant >>
  /\ UNCHANGED << target, auxVars, txtVars, domVars, lastRead, popVars, pc, uiAlive, reqVars, reply,
                  orchVars, branch, portSeen, posted, log, clipVars, recVars, portVars >>

\* Date.now() moves on; the clock is followed through the instants around
\* the stored expiry: one ms before it, at it and one ms after it
TokenTick ==
  /\ now <= oauthExpires
  /\ now' \in { t \in { oauthExpires - 1, oauthExpires, oauthExpires + 1 } : t > now }
  /\ UNCHANGED << target, auxVars, txtVars, domVars, tokVars, storedAt, popupPc, view, viewAge, shows,
                  opens, pc, uiAlive, reqVars, reply, orchVars, branch, portSeen, posted,
                  log, clipVars, recVars, portVars, tokenCached >>

TokenInit ==
  /\ PopupClosed
  /\ NoText
  /\ NoPage
  /\ NoToken
  /\ NoAux
  /\ target = "firefox"
  /\ BackgroundIdle

TokenNext == ReadToken \/ CacheToken \/ TokenTick

TokenSpec == TokenInit /\ [][TokenNext]_vars


\* a cached token is served only strictly before its expiry, which is the
\* caching time plus (expires_in - 300) s, and never if expires_in <= 300
ServedBeforeExpiry ==
  lastRead.got =>
    /\ lastRead.at < lastRead.exp
    /\ lastRead.exp = grant.at + (grant.life - 300) * 1000
    /\ grant.life > 300

\* C30: the token cache returns the cached token only while the time is
\* strictly before the stored expiry, which is the caching time plus
\* (expires_in - 300) seconds; a cached token found expired is removed by the
\* read; a token whose lifetime is at most 300 s is never served.
C30_TokenCacheExpiry ==
  /\ ServedBeforeExpiry
  /\ lastRead.had /\ ~ (lastRead.at < lastRead.exp) => ~ lastRead.kept

\* a token cached with expires_in = 301 is served 1 ms before its expiry
C30_ServedJustBefore ==
  /\ lastRead.got
  /\ grant.life = 301
  /\ lastRead.at = lastRead.exp - 1

\* the same token read at its expiry is not served and is removed
C30_RemovedAtExpiry ==
  /\ lastRead.had /\ ~ lastRead.got /\ ~ lastRead.kept
  /\ grant.life = 301
  /\ lastRead.at = lastRead.exp


\* the candidates of the page in the order fillOTP tries them
Ranked == ByConfidence(page, findOTPInputs(page))

\* C31: fillOTP lists each input at most once, tries the candidates in
\* non-increasing score order, returns true at the first candidate whose fill
\* succeeds, leaving every lower-ranked candidate unmodified, and returns
\* false when there is no candidate or every fill is rejected.
C31_FirstSuccessOnly ==
  Filled =>
    /\ \A i, j \in DOMAIN Ranked : i < j =>
         /\ Ranked[i] # Ranked[j]
         /\ ConfidenceOf(page[Ranked[i]]) >= ConfidenceOf(page[Ranked[j]])
    /\ Len(tries) <= Len(Ranked)
    /\ \A c \in DOMAIN tries : tries[c].el = Ranked[c]
    /\ \A c \in DOMAIN tries : tries[c].ok <=> (filled /\ c = Len(tries))
    /\ filled => \A j \in DOMAIN Ranked : j > Len(tries) => value[Ranked[j]] = << >>
    /\ ~ filled => Len(tries) = Len(Ranked)

\* the same without the clause on lower-ranked candidates
C31_OrderAndResult ==
  Filled =>
    /\ \A i, j \in DOMAIN Ranked : i < j =>
         /\ Ranked[i] # Ranked[j]
         /\ ConfidenceOf(page[Ranked[i]]) >= ConfidenceOf(page[Ranked[j]])
    /\ Len(tries) <= Len(Ranked)
    /\ \A c \in DOMAIN tries : tries[c].el = Ranked[c]
    /\ \A c \in DOMAIN tries : tries[c].ok <=> (filled /\ c = Len(tries))
    /\ ~ filled => Len(tries) = Len(Ranked)

\* a one-time-code input of one character ranked first, its fill writing
\* into a single-character input of lower score
C31_LowerRankedWritten ==
  /\ Filled
  /\ filled
  /\ Len(tries) = 1
  /\ \E j \in DOMAIN Ranked :
       /\ j > 1
       /\ ConfidenceOf(page[Ranked[j]]) < ConfidenceOf(page[Ranked[1]])
       /\ value[Ranked[j]] # << >>


\* ------------------------------------------------------ inputs to be scored
\* One input with every combination of the attributes the score reads,
\* together with a selector of OTP_SELECTORS that matches it.
Autocompletes == { "", "one-time-code", "off" }
InputModes == { "", "numeric", "decimal" }
MaxLengths == { "", "1", "3", "4", "6", "8", "9" }
Names == { << >>, Otp, << "O", "T", "P", "-", "C", "o", "d", "e" >> }
Ids == { << >>, Otp }
ClassNames == { << >>, << "s", "m", "s", " ", "p", "i", "n" >> }
Placeholders == { << >>, << "C", "o", "d", "e" >> }
Forms ==
  { NoForm,
    [present |-> TRUE, textContent |-> << >>],
    [present |-> TRUE, textContent |-> << "P", "I", "N", " ", "c", "o", "d", "e" >>],
    [present |-> TRUE, textContent |-> << "2", "f", "a", " ", "t", "o", "k", "e", "n", "s" >>] }

Elements ==
  { [Blank EXCEPT !.autocomplete = a, !.inputMode = im, !.maxlength = ml, !.name = n,
                  !.id = i, !.className = c, !.placeholder = p, !.form = f] :
    a \in Autocompletes, im \in InputModes, ml \in MaxLengths, n \in Names,
    i \in Ids, c \in ClassNames, p \in Placeholders, f \in Forms }

\* findOTPInputs is about to score an input that a selector matched
ConfidenceInit ==
  /\ PopupClosed
  /\ NoText
  /\ NoPage
  /\ NoToken
  /\ NoMail
  /\ NoFill
  /\ BackgroundIdle
  /\ target \in { "firefox", "chrome" }
  /\ element \in Elements
  /\ viaSelector \in { OTP_SELECTORS[k] : k \in DOMAIN OTP_SELECTORS }
  /\ Selects(viaSelector, element)
  /\ confidence = 0
  /\ cpc = "ready"

\* const confidence = this.calculateConfidence(element, selector)
Score ==
  /\ cpc = "ready"
  /\ confidence' = calculateConfidence(element, viaSelector)
  /\ cpc' = "done"
  /\ UNCHANGED << target, element, viaSelector, message, fillVars, txtVars, domVars, tokVars, popVars, pc, uiAlive,
                  reqVars, reply, orchVars, branch, portSeen, posted, log, clipVars,
                  recVars, portVars, tokenCached >>

ConfidenceNext == Score

ConfidenceSpec == ConfidenceInit /\ [][ConfidenceNext]_vars

Scored == cpc = "done"

\* the keywords that occur in one of the given texts, lower-cased
KeywordsIn(texts) ==
  { k \in DOMAIN OTP_KEYWORDS : \E s \in texts : Has(ToLowerCase(s), OTP_KEYWORDS[k]) }

B(cond) == IF cond THEN 1 ELSE 0

\* the score as the sum of its six terms
ReferenceScore(el) ==
  100 * B(el.autocomplete = "one-time-code")
  + 50 * B(el.inputMode = "numeric")
  + 30 * B(MaxLengthOf(el) \in 4..8)
  + 20 * B(MaxLengthOf(el) = 1)
  + 10 * Cardinality(KeywordsIn({ el.name, el.id, el.className, el.placeholder }))
  + 5 * (IF el.form.present THEN Cardinality(KeywordsIn({ el.form.textContent })) ELSE 0)

\* C32: calculateConfidence equals 100*[autocomplete is one-time-code]
\* + 50*[input mode is numeric] + 30*[4 <= maxlength <= 8] + 20*[maxlength = 1]
\* + 10*(keywords in name/id/class/placeholder) + 5*(keywords in the form's
\* text, 0 without a form), whichever selector matched the input.
C32_ScoreIsReference == Scored => confidence = ReferenceScore(element)

\* a numeric one-time-code input of six characters with keywords in its
\* attributes and in its form, matched by the third selector that fits it
C32_Witness ==
  /\ Scored
  /\ viaSelector = "text maxlength=6"
  /\ Selects("autocomplete=one-time-code", element)
  /\ Selects("inputmode=numeric maxlength=6", element)
  /\ KeywordsIn({ element.name, element.id }) # { }
  /\ element.form.present
  /\ KeywordsIn({ element.form.textContent }) # { }
  /\ confidence = 100 + 50 + 30 + 10 * 2 + 5 * 2


\* --------------------------------------------------- getMessageTextContent
MaxParts == 2

\* body data as units: a character stands for its own encoding, BadChar for
\* a character outside the base64 alphabet (atob throws), BadByte for bytes
\* that are not UTF-8 (decodeURIComponent throws)
BadChar == "*"
BadByte == "~"

\* part.body.data is undefined
NoData == << "undefined" >>

\* a decoder that skips what it cannot decode
decodeBase64_Lenient(data) ==
  IF data = NoData THEN << >>
  ELSE SelectSeq(data, LAMBDA u : u \notin { BadChar, BadByte })

\* decodeBase64: the decoded text, '' when anything in the try block throws
decodeBase64(data) ==
  IF data = NoData THEN << >>
  ELSE IF \E k \in DOMAIN data : data[k] \in { BadChar, BadByte } THEN << >>
  ELSE data

TextTypes == { "text/plain", "text/html" }

\* for (const part of message.payload.parts), from part i on
RECURSIVE PartsContent(_, _)
PartsContent(parts, i) ==
  IF i > Len(parts) THEN << >>
  ELSE (IF parts[i].mimeType \in TextTypes
        THEN << " " >> \o decodeBase64(parts[i].body.data)
        ELSE << >>)
       \o PartsContent(parts, i + 1)

\* getMessageTextContent(message); body.data and parts are absent when empty
getMessageTextContent(m) ==
  m.snippet
  \o (IF m.payload.body.data # << >> /\ m.payload.body.data # NoData
      THEN << " " >> \o decodeBase64(m.payload.body.data)
      ELSE << >>)
  \o PartsContent(m.payload.parts, 1)

SixDigits == << "4", "8", "2", "9", "1", "3" >>
Greeting == << "h", "i" >>
PinLine == Pin \o << ":", " ", "7", "7", "3", "1", "5" >>

\* what a body or a part can carry: nothing, text without a code, a code, and
\* the same with a unit that cannot be decoded
Datas ==
  { NoData, Greeting, SixDigits, PinLine, << BadChar >>, SixDigits \o << BadByte >> }

PartsOfMail ==
  UNION { [1..n -> [mimeType : TextTypes \cup { "image/png" }, body : [data : Datas]]] :
          n \in 0..MaxParts }

Mails ==
  [snippet : { << >>, Greeting, SixDigits },
   payload : [body : [data : (Datas \ { NoData }) \cup { << >> }], parts : PartsOfMail]]

\* getMessageDetail has returned a message and extractOTP is called with it
DecodeInit ==
  /\ PopupClosed
  /\ NoPage
  /\ NoToken
  /\ NoScore
  /\ NoFill
  /\ BackgroundIdle
  /\ target \in { "firefox", "chrome" }
  /\ message \in Mails
  /\ textContent = << >>
  /\ otpCode = NoCode
  /\ xpc = "message"

\* const textContent = this.getMessageTextContent(message)
ReadMessage ==
  /\ xpc = "message"
  /\ textContent' = getMessageTextContent(message)
  /\ xpc' = "ready"
  /\ UNCHANGED << target, auxVars, otpCode, domVars, tokVars, popVars, pc, uiAlive, reqVars,
                  reply, orchVars, branch, portSeen, posted, log, clipVars, recVars,
                  portVars, tokenCached >>

DecodeNext == ReadMessage \/ Extract

DecodeSpec == DecodeInit /\ [][DecodeNext]_vars

\* the data cannot be decoded
Undecodable(data) == data # NoData /\ \E k \in DOMAIN data : data[k] \in { BadChar, BadByte }

\* the data of the body and of the text parts, in the order they are read
TextDatas(m) ==
  (IF m.payload.body.data = << >> THEN << >> ELSE << m.payload.body.data >>)
  \o SelectSeq([k \in DOMAIN m.payload.parts |->
                  IF m.payload.parts[k].mimeType \in TextTypes
                  THEN m.payload.parts[k].body.data ELSE << "skip" >>],
               LAMBDA d : d # << "skip" >>)

\* what piece number k of the message contributes when a failure counts as ''
RECURSIVE Contributions(_, _)
Contributions(ds, k) ==
  IF k > Len(ds) THEN << >>
  ELSE << " " >> \o (IF Undecodable(ds[k]) \/ ds[k] = NoData THEN << >> ELSE ds[k])
       \o Contributions(ds, k + 1)

\* C33: a body or text part that cannot be decoded contributes the empty
\* string and the run goes on: the snippet and every other text part are
\* still concatenated and searched, and a code in another part is extracted.
C33_DecodeFailureContributesNothing ==
  (Extracted /\ \E k \in DOMAIN TextDatas(message) : Undecodable(TextDatas(message)[k])) =>
    /\ textContent = message.snippet \o Contributions(TextDatas(message), 1)
    /\ otpCode = extractOTP(textContent)
    /\ (\/ message.snippet = SixDigits
        \/ \E k \in DOMAIN TextDatas(message) : TextDatas(message)[k] = SixDigits)
         => otpCode = SixDigits
    /\ (/\ message.snippet # SixDigits
        /\ \E k \in DOMAIN TextDatas(message) : TextDatas(message)[k] = PinLine
        /\ \A k \in DOMAIN TextDatas(message) : TextDatas(message)[k] # SixDigits)
         => otpCode = << "7", "7", "3", "1", "5" >>

\* the first text part cannot be decoded and the code of the second is found
C33_Witness ==
  /\ Extracted
  /\ message.snippet = Greeting
  /\ message.payload.body.data = << >>
  /\ Len(message.payload.parts) = 2
  /\ message.payload.parts[1].mimeType = "text/plain"
  /\ Undecodable(message.payload.parts[1].body.data)
  /\ message.payload.parts[2].mimeType = "text/html"
  /\ message.payload.parts[2].body.data = PinLine
  /\ otpCode = << "7", "7", "3", "1", "5" >>


\* C34: on Chrome fetchOTPWithAutoFill returns exactly the response of
\* fetchOTPForDomain, whether or not injectAndFillOTP threw, and no script
\* is injected when autoFill is false or the retrieval failed.
C34_ResponseIsRetrievalResult ==
  \A r \in Solo : target = "chrome" =>
    /\ Called(r, "sendResponse") => response[r] = result[r]
    /\ injections[r] > 0 => (req[r].autoFill /\ result[r].success /\ result[r].otp # None)
    /\ fillError[r] => Called(r, "injectAndFillOTP")

\* the injection was rejected and the popup still got the code
C34_Witness ==
  \E r \in Solo :
    /\ target = "chrome"
    /\ Called(r, "sendResponse")
    /\ fillError[r]
    /\ injections[r] = 1
    /\ response[r].success
    /\ response[r].otp \in Codes


\* the most recently connected of the open ports of tab t
NewestOpenPort(t) == CHOOSE p \in OpenPortsOf(t) : \A q \in OpenPortsOf(t) : q <= p

\* C35: the registry entry of a tab refers to the most recently connected
\* port of that tab that is still open: once every disconnect event has been
\* handled, a tab with an open port has that port's record, also when an
\* older port of the tab disconnected after the newer one connected.
C35_NewestOpenPortRegistered ==
  (target = "firefox" /\ closing = { }) =>
    \A t \in Tabs : OpenPortsOf(t) # { } => activePorts[t] = NewestOpenPort(t)

\* an older port of the tab has disconnected, its onDisconnect listener has
\* run, and the newer port of the tab is open and unregistered
C35_LiveAgentUnregistered ==
  \E t \in Tabs : \E p \in OpenPortsOf(t) :
    /\ target = "firefox"
    /\ closing = { }
    /\ \E q \in 1..(p - 1) : portTab[q] = t /\ q \notin openPorts
    /\ activePorts[t] = NoPort


\* no request and no popup operation is in flight
Quiescent ==
  /\ \A r \in Reqs : pc[r] \in { "idle", "norequest", "done" }
  /\ popupPc \in { "closed", "ready" }

\* C36: whenever no request and no popup operation is in flight the badge
\* and the stored record agree: the badge is empty exactly when no record
\* exists, and the glyph of the badge is that of the record's success flag.
C36_BadgeAgreesWithRecord ==
  (target = "firefox" /\ Quiescent) =>
    /\ badge.text = "" <=> stored = NoOutcome
    /\ stored # NoOutcome => badge.text = Glyph(stored.success)

\* two showPopupWithResult calls interleave without any call failing, and
\* the badge shows the glyph of the outcome that was overwritten
C36_GlyphOfOverwrittenOutcome ==
  /\ Quiescent
  /\ \A r \in Reqs : Done(r) /\ Len(SelectSeq(log[r], LAMBDA c : c = "storage.set")) = 1 /\ Called(r, "setTitle")
  /\ stored # NoOutcome
  /\ badge.text # Glyph(stored.success)


\* ------------------------------- the popup's check while a request completes
\* Request 1 has run to its end and its outcome is stored; request 2, sent
\* from a popup that has been closed since, is still in the background with
\* its retrieval finished.  The popup is opened again meanwhile.
Later == Reqs \ Solo

RaceInit ==
  /\ target = "firefox"
  /\ \E res \in { Success(c) : c \in Codes } \cup { Failure(NoOTPFound) } :
     \E res2 \in ({ Success(c) : c \in Codes } \cup { Failure(NoOTPFound) }) \ { res } :
       LET rq == SendFetchOTP(1, 1, FALSE)
           b  == DeliveryBranch(res, rq, [t \in Tabs |-> NoPort])
           o  == IF res.success THEN SuccessOutcome(res, rq, b)
                                ELSE FailureOutcome(res, rq)
       IN  /\ result = [r \in Reqs |-> IF r \in Solo THEN res ELSE res2]
           /\ req = [r \in Reqs |-> SendFetchOTP(r, 1, FALSE)]
           /\ branch = [r \in Reqs |-> IF r \in Solo THEN b ELSE None]
           /\ outcome = [r \in Reqs |-> IF r \in Solo THEN o ELSE NoOutcome]
           /\ stored = o
           /\ badge = [text |-> Glyph(o.success), color |-> BadgeColor(o.success),
                       title |-> BadgeTitle(o)]
           /\ clip = [r \in Reqs |-> IF r \in Solo /\ res.success THEN "written" ELSE None]
           /\ clipTab = [r \in Reqs |-> IF r \in Solo /\ res.success THEN 1 ELSE NoTab]
           /\ clipboard = IF res.success THEN res.otp ELSE None
           /\ log = [r \in Reqs |->
                      IF r \notin Solo THEN << >>
                      ELSE (IF res.success THEN << "copyToClipboard" >> ELSE << >>)
                           \o << "showPopupWithResult", "storage.set", "setBadgeText",
                                 "setBadgeBackgroundColor", "setTitle" >>]
  /\ pc = [r \in Reqs |-> IF r \in Solo THEN "done" ELSE "deliver"]
  /\ uiAlive = [r \in Reqs |-> FALSE]
  /\ injReq = [r \in Reqs |-> FALSE]
  /\ reply = [r \in Reqs |-> HandleFetchOTPReply(target)]
  /\ msgs = [r \in Reqs |-> << >>]
  /\ idx = [r \in Reqs |-> 0]
  /\ net = [r \in Reqs |-> << >>]
  /\ thrown = [r \in Reqs |-> << >>]
  /\ portSeen = [r \in Reqs |-> NoPort]
  /\ posted = [r \in Reqs |-> << >>]
  /\ writes = [r \in Reqs |-> IF r \in Solo THEN 1 ELSE 0]
  /\ badgeSet = [r \in Reqs |-> r \in Solo]
  /\ activePorts = [t \in Tabs |-> NoPort]
  /\ openPorts = {}
  /\ closing = {}
  /\ portTab = [p \in Ports |-> NoTab]
  /\ nextPort = 1
  /\ pendingConn = [t \in Tabs |-> 0]
  /\ tokenCached = TRUE
  /\ PopupClosed
  /\ NoText
  /\ NoPage
  /\ NoToken
  /\ NoAux

RaceNext ==
  \/ Tick
  \/ OpenPopup
  \/ CheckGet
  \/ CheckRemove
  \/ ClearBadgeText
  \/ ClearBadgeTitle
  \/ DismissPopup
  \/ \E r \in Later : Deliver(r)
  \/ \E r \in Later : ClipQuery(r)
  \/ \E r \in Later : ClipInject(r)
  \/ \E r \in Later : StoreResult(r)
  \/ \E r \in Later : SetBadgeText(r)
  \/ \E r \in Later : SetBadgeColor(r)
  \/ \E r \in Later : SetBadgeTitle(r)
  \/ \E r \in Later : StoreFallback(r)

RaceSpec == RaceInit /\ [][RaceNext]_vars

\* C37: the popup never removes an outcome it has not displayed: whenever
\* the latest_otp_result record is removed, it is the outcome that the
\* popup's check read and showed, also when a request stored a new outcome
\* between the read and the removal.
C37_RemovesOnlyWhatItShowed ==
  [][(stored # NoOutcome /\ stored' = NoOutcome) => stored = view]_vars

\* the record of request 2 is gone and no popup has ever displayed it
C37_LostOutcome ==
  \E r \in Later :
    /\ Done(r)
    /\ writes[r] = 1
    /\ stored = NoOutcome
    /\ view # outcome[r]
    /\ shows = 1


\* C38: the retrieved code is delivered only into the request's originating
\* tab: the fill-command goes to a port of the tab whose id came with the
\* request, and the clipboard script is injected into that same tab, also
\* when another tab has become the active one meanwhile.
C38_DeliveredToOriginatingTab ==
  \A r \in Solo : target = "firefox" =>
    /\ \A i \in DOMAIN posted[r] : portTab[posted[r][i].port] = req[r].tabId
    /\ clipTab[r] # NoTab => clipTab[r] = req[r].tabId

\* the code was written to the clipboard by a script running in another tab
\* than the one the request came from
C38_WrittenInOtherTab ==
  \E r \in Solo :
    /\ target = "firefox"
    /\ clip[r] = "written"
    /\ req[r].tabId \in OriginTabs
    /\ clipTab[r] \notin { NoTab, req[r].tabId }

\* the fill-command itself went to a port of the originating tab
C38_FillCommandToOriginatingTab ==
  \A r \in Solo : target = "firefox" =>
    \A i \in DOMAIN posted[r] : portTab[posted[r][i].port] = req[r].tabId


\* ------------------------------------------- the bridge agent's fillOTPCode
MaxInputs == 3

\* the selectors of fillOTPCode, in their order
BridgeSelectors ==
  << "autocomplete=one-time-code", "inputmode=numeric", "type=text", "type=number",
     "not type" >>

\* document.querySelectorAll(selector) matches the input; an input without a
\* type attribute has type ""
BridgeSelects(sel, el) ==
  CASE sel = "autocomplete=one-time-code" -> el.autocomplete = "one-time-code"
    [] sel = "inputmode=numeric" -> el.inputMode = "numeric"
    [] sel = "type=text" -> el.type = "text"
    [] sel = "type=number" -> el.type = "number"
    [] sel = "not type" -> el.type = ""

\* input.offsetParent !== null && !input.disabled && !input.readOnly
Editable(el) == ~ el.disabled

\* the inputs fillOTPCode looks at, in the order it looks at them: selector
\* by selector, each in document order
RECURSIVE BridgeCandidates(_, _)
BridgeCandidates(pg, i) ==
  IF i > Len(BridgeSelectors) THEN << >>
  ELSE Ascending({ e \in DOMAIN pg : BridgeSelects(BridgeSelectors[i], pg[e]) })
       \o BridgeCandidates(pg, i + 1)

\* fillOTPCode(otpCode): the first editable input found gets the whole code
\* and the function returns
fillOTPCode(pg, val, otp) ==
  LET cs == BridgeCandidates(pg, 1)
      ok == { k \in DOMAIN cs : Editable(pg[cs[k]]) }
  IN IF ok = { } THEN [ok |-> FALSE, val |-> val]
     ELSE LET first == CHOOSE k \in ok : \A j \in ok : k <= j
          IN [ok |-> TRUE, val |-> [val EXCEPT ![cs[first]] = << otp >>]]

\* the inputs of a sign-in page
BridgeInputs ==
  { [Blank EXCEPT !.name = Username],
    [Blank EXCEPT !.id = Email, !.type = "email"],
    [Blank EXCEPT !.name = Password, !.type = "password"],
    [Blank EXCEPT !.placeholder = Phone, !.type = "tel", !.inputMode = "numeric"],
    [Blank EXCEPT !.autocomplete = "one-time-code", !.type = ""],
    [Blank EXCEPT !.name = Otp, !.maxlength = "6"],
    [Blank EXCEPT !.name = Otp, !.type = "number", !.disabled = TRUE] }

BridgePages == UNION { [1..n -> BridgeInputs] : n \in 1..MaxInputs }

\* the agent of the page has received a fill-command on its port
BridgeInit ==
  /\ PopupClosed
  /\ NoToken
  /\ NoAux
  /\ BackgroundIdle
  /\ target \in { "firefox", "chrome" }
  /\ textContent = << >>
  /\ xpc = "idle"
  /\ otpCode = FillCode
  /\ page \in BridgePages
  /\ value = [e \in DOMAIN page |-> << >>]
  /\ fpc = "command"
  /\ filled = FALSE
  /\ tries = << >>

\* port.onMessage listener: fillOTPCode(message.otp)
BridgeFill ==
  /\ fpc = "command"
  /\ \E r \in { fillOTPCode(page, value, otpCode) } :
        /\ value' = r.val
        /\ filled' = r.ok
  /\ fpc' = "done"
  /\ UNCHANGED << target, auxVars, txtVars, page, tries, tokVars, popVars, pc, uiAlive, reqVars,
                  reply, orchVars, branch, portSeen, posted, log, clipVars, recVars,
                  portVars, tokenCached >>

BridgeNext == BridgeFill

BridgeSpec == BridgeInit /\ [][BridgeNext]_vars

\* the input's name, id, class or placeholder indicates email, password,
\* username or phone
OtherPurpose(el) ==
  \E w \in Excluded : \E s \in { el.name, el.id, el.className, el.placeholder } :
    Has(ToLowerCase(s), w)

\* the inputs that hold something
Written == { e \in DOMAIN page : value[e] # << >> }

\* C39: for one fill-command the bridge agent's fillOTPCode writes the code
\* into at most one input, and never into an input whose name, id, class or
\* placeholder indicates email, password, username or phone.
C39_OneInputNotForOtherPurpose ==
  Filled =>
    /\ Cardinality(Written) <= 1
    /\ \A e \in Written : ~ OtherPurpose(page[e])

\* the code went into the user name field although the page has a code field
C39_CodeInUsernameField ==
  /\ Filled
  /\ \E e \in Written : Has(page[e].name, Username)
  /\ \E e \in DOMAIN page : page[e].name = Otp /\ ~ page[e].disabled

\* for one command at most one input is written
C39_AtMostOneInput == Filled => Cardinality(Written) <= 1

====
